---- MODULE Spec2Model ----
(***************************************************************************)
(* Fixed-capacity circular buffer of src/circular_buffer.c (and its twin   *)
(* src/10_circular_buffer_mini.c): capacity validation, mask wrapping, the *)
(* buffer-full policy and the critical-section wrappers.                   *)
(*                                                                         *)
(* The struct CircularBuffer_t is the record cb.  Every API function is an *)
(* operator of the same name that maps the struct (and the arguments) to   *)
(* the struct after the call, the return value, the caller's output        *)
(* location and the storage slot the call touched.  Spec runs the API      *)
(* sequentially, one whole call per step.  Every call is made with the     *)
(* address of this one instance, so the functions' cb == NULL early return *)
(* (which has no struct to act on) is never taken.  The uint32_t fields    *)
(* are naturals: within the bounds below every value stays far under 2^32, *)
(* so no 32-bit wrap-around can occur in index + 1, count + 1 or size - 1. *)
(*                                                                         *)
(* Specifications: Spec (any call sequence), SpecConc (interrupt-driven    *)
(* use), SpecLog (logged runs from a fresh init), SpecMain (the two main() *)
(* programs), SpecUse (Spec and SpecMain together) and SpecSize (cb_init   *)
(* over the full 32-bit range of its size argument).                       *)
(***************************************************************************)
EXTENDS Integers, Sequences, FiniteSets, TLC

VARIABLES
    cb,         \* the CircularBuffer_t instance
    policy,     \* BUFFER_FULL_POLICY of the build
    allocated,  \* storage blocks obtained from malloc and not yet freed
    data,       \* the caller's SensorData_t output variable (*pData)
    call,       \* the last API call made: [op, pNull, arg]
    ret,        \* what that call returned
    access,     \* the storage slot that call touched: <<kind, index>>
    fault,      \* a call dereferenced a NULL pBuffer and the program trapped
    live,       \* history: the values pushed with success and neither popped
                \* nor discarded by an overwrite since, oldest first
    armArch,    \* the build defines __ARM_ARCH
    irqOff,     \* interrupts are disabled (__disable_irq() is in effect)
    pc,         \* where the main loop stands inside cb_pop_safe
    reg,        \* the value the main loop last loaded from a volatile field
    isr,        \* the producer's last cb_push_safe call: [arg, ret]
    hist,       \* history: the calls made since the run began, oldest first
    prog,       \* whose main() is running: "circular_buffer" or "mini"
    line,       \* the test of main() that runs next
    loopI,      \* main()'s loop variable i
    size32,     \* a uint32_t size argument, as the set of its 1 bits
    sizeBits,   \* the width of size_t in the build
    init32,     \* what cb_init made of size32: [ret, capacity, indexMask, slots]
    word,       \* a uint32_t argument (n, index), as the set of its 1 bits
    shift,      \* the size argument of a wrap is 1 << shift
    wres,       \* what the helper functions made of word and shift
    wsteps,     \* how often word has been incremented
    rb,         \* the RingBuffer instance of 14_ring_buffer.c
    rbOut,      \* its last call: [ret, data (*data), calls made so far]
    value       \* the shared counter the main loop and the ISR update

vars == <<cb, policy, allocated, data, call, ret, access, fault, live,
          armArch, irqOff, pc, reg, isr,
          hist, prog, line, loopI, size32, sizeBits, init32,
          word, shift, wres, wsteps, rb, rbOut, value>>

\* the variables only the interrupt-driven use of the buffer moves
conc == <<armArch, irqOff, pc, reg, isr, value>>

\* the variables of the logged runs, of main() and of the 32-bit size check
logged == <<hist>>
mainv == <<prog, line, loopI>>
wide == <<size32, sizeBits, init32, word, shift, wres, wsteps, rb, rbOut>>

(***************************************************************************)
(* Bounds of the model.                                                    *)
(***************************************************************************)
MaxSize == 4        \* init is tried with every size in 0..MaxSize
MaxData == 2        \* pushed values are 1..MaxData (fresh storage holds 0)
MaxBlocks == 2      \* malloc returns NULL once this many blocks are held
MaxCalls == 5       \* a logged run makes at most this many calls after init

(***************************************************************************)
(* Program constants.                                                      *)
(***************************************************************************)
POLICY_OVERWRITE_OLDEST == 0
POLICY_REJECT_NEW == 1
CB_SUCCESS == 0
CB_ERROR_EMPTY == -1
CB_ERROR_FULL == -2
CB_ERROR_INVALID_SIZE == -3
CB_ERROR_NULL_POINTER == -4

NULL == <<>>        \* pBuffer == NULL; a held block is a sequence of slots
Data == 1 .. MaxData
Sizes == 0 .. MaxSize
NoAccess == <<"none", 0>>

(***************************************************************************)
(* Bitwise AND of two unsigned values, bit by bit.                         *)
(***************************************************************************)
RECURSIVE BitAnd(_, _)
BitAnd(a, b) ==
    IF a = 0 \/ b = 0 THEN 0
    ELSE (a % 2) * (b % 2) + 2 * BitAnd(a \div 2, b \div 2)

isPowerOfTwo(n) == (n # 0) /\ (BitAnd(n, n - 1) = 0)

\* wrapIndex that returns the index without masking it
wrapIndex_noMask(c, index) == index

wrapIndex(c, index) == BitAnd(index, c.indexMask)

\* storage slot i of a held block
Slot(buf, i) == buf[i + 1]
SetSlot(buf, i, v) == [buf EXCEPT ![i + 1] = v]
ZeroBlock(size) == [i \in 1 .. size |-> 0]

(***************************************************************************)
(* The struct before any call: a zero-filled CircularBuffer_t.             *)
(***************************************************************************)
ZeroStruct ==
    [pBuffer |-> NULL, writeIndex |-> 0, readIndex |-> 0, count |-> 0,
     capacity |-> 0, indexMask |-> 0, isInitialized |-> FALSE]

\* cb_init that writes the size fields before it validates the size
cb_init_writesFirst(c, size, mallocOk) ==
    LET c1 == [c EXCEPT !.capacity = size, !.indexMask = size - 1,
                        !.writeIndex = 0, !.readIndex = 0, !.count = 0]
    IN  IF size = 0 \/ ~isPowerOfTwo(size)
        THEN [cb |-> c1, ret |-> CB_ERROR_INVALID_SIZE, got |-> 0]
        ELSE IF ~mallocOk
        THEN [cb |-> [c1 EXCEPT !.pBuffer = NULL],
              ret |-> CB_ERROR_NULL_POINTER, got |-> 0]
        ELSE [cb |-> [c1 EXCEPT !.pBuffer = ZeroBlock(size),
                                !.isInitialized = TRUE],
              ret |-> CB_SUCCESS, got |-> 1]

(***************************************************************************)
(* cb_init(cb, size); mallocOk is whether malloc returns a block.          *)
(* Result: the struct, the return value, the number of blocks obtained.    *)
(***************************************************************************)
cb_init(c, size, mallocOk) ==
    IF size = 0 \/ ~isPowerOfTwo(size)
    THEN [cb |-> c, ret |-> CB_ERROR_INVALID_SIZE, got |-> 0]
    ELSE LET c1 == [c EXCEPT !.capacity = size, !.indexMask = size - 1,
                             !.writeIndex = 0, !.readIndex = 0, !.count = 0]
         IN  IF ~mallocOk
             THEN [cb |-> [c1 EXCEPT !.pBuffer = NULL],
                   ret |-> CB_ERROR_NULL_POINTER, got |-> 0]
             ELSE [cb |-> [c1 EXCEPT !.pBuffer = ZeroBlock(size),
                                     !.isInitialized = TRUE],
                   ret |-> CB_SUCCESS, got |-> 1]

\* cb_deinit that frees the block and keeps the pointer to it
cb_deinit_keepsPointer(c) ==
    [cb |-> [c EXCEPT !.isInitialized = FALSE,
                      !.capacity = 0, !.writeIndex = 0, !.readIndex = 0,
                      !.count = 0],
     ret |-> CB_SUCCESS,
     freed |-> IF c.pBuffer # NULL THEN 1 ELSE 0]

(***************************************************************************)
(* cb_deinit(cb).  Result: the struct, the return value, blocks freed.     *)
(***************************************************************************)
cb_deinit(c) ==
    [cb |-> [c EXCEPT !.pBuffer = NULL, !.isInitialized = FALSE,
                      !.capacity = 0, !.writeIndex = 0, !.readIndex = 0,
                      !.count = 0],
     ret |-> CB_SUCCESS,
     freed |-> IF c.pBuffer # NULL THEN 1 ELSE 0]

\* cb_isEmpty without the test of count
cb_isEmpty_flagOnly(c) == ~c.isInitialized

cb_isEmpty(c) == IF ~c.isInitialized THEN TRUE ELSE c.count = 0

\* cb_isFull that tests the cursors instead of the count
cb_isFull_cursors(c) ==
    IF ~c.isInitialized THEN FALSE ELSE c.writeIndex = c.readIndex

cb_isFull(c) == IF ~c.isInitialized THEN FALSE ELSE c.count = c.capacity

\* cb_push compiled with the overwrite branch whatever the policy
cb_push_neverRejects(c, v, pol) ==
    IF ~c.isInitialized
    THEN [cb |-> c, ret |-> CB_ERROR_NULL_POINTER, access |-> NoAccess]
    ELSE LET c1 == IF cb_isFull(c)
                   THEN [c EXCEPT !.readIndex = wrapIndex(c, c.readIndex + 1)]
                   ELSE [c EXCEPT !.count = c.count + 1]
             c2 == IF c1.pBuffer = NULL THEN c1
                   ELSE [c1 EXCEPT !.pBuffer = SetSlot(c1.pBuffer, c1.writeIndex, v)]
         IN  [cb |-> [c2 EXCEPT !.writeIndex = wrapIndex(c2, c2.writeIndex + 1)],
              ret |-> CB_SUCCESS,
              access |-> <<"write", c1.writeIndex>>]

\* cb_push whose overwrite branch forgets to advance readIndex
cb_push_keepsReadIndex(c, v, pol) ==
    IF ~c.isInitialized
    THEN [cb |-> c, ret |-> CB_ERROR_NULL_POINTER, access |-> NoAccess]
    ELSE IF cb_isFull(c) /\ pol = POLICY_REJECT_NEW
    THEN [cb |-> c, ret |-> CB_ERROR_FULL, access |-> NoAccess]
    ELSE LET c1 == IF cb_isFull(c) THEN c
                   ELSE [c EXCEPT !.count = c.count + 1]
             c2 == IF c1.pBuffer = NULL THEN c1
                   ELSE [c1 EXCEPT !.pBuffer = SetSlot(c1.pBuffer, c1.writeIndex, v)]
         IN  [cb |-> [c2 EXCEPT !.writeIndex = wrapIndex(c2, c2.writeIndex + 1)],
              ret |-> CB_SUCCESS,
              access |-> <<"write", c1.writeIndex>>]

\* cb_push that increments count on the overwrite branch too
cb_push_countsOverwrite(c, v, pol) ==
    IF ~c.isInitialized
    THEN [cb |-> c, ret |-> CB_ERROR_NULL_POINTER, access |-> NoAccess]
    ELSE IF cb_isFull(c) /\ pol = POLICY_REJECT_NEW
    THEN [cb |-> c, ret |-> CB_ERROR_FULL, access |-> NoAccess]
    ELSE LET c1 == IF cb_isFull(c)
                   THEN [c EXCEPT !.readIndex = wrapIndex(c, c.readIndex + 1),
                                  !.count = c.count + 1]
                   ELSE [c EXCEPT !.count = c.count + 1]
             c2 == IF c1.pBuffer = NULL THEN c1
                   ELSE [c1 EXCEPT !.pBuffer = SetSlot(c1.pBuffer, c1.writeIndex, v)]
         IN  [cb |-> [c2 EXCEPT !.writeIndex = wrapIndex(c2, c2.writeIndex + 1)],
              ret |-> CB_SUCCESS,
              access |-> <<"write", c1.writeIndex>>]

\* cb_push that advances writeIndex before it stores the value
cb_push_storesAfterAdvance(c, v, pol) ==
    IF ~c.isInitialized
    THEN [cb |-> c, ret |-> CB_ERROR_NULL_POINTER, access |-> NoAccess]
    ELSE IF cb_isFull(c) /\ pol = POLICY_REJECT_NEW
    THEN [cb |-> c, ret |-> CB_ERROR_FULL, access |-> NoAccess]
    ELSE LET c1 == IF cb_isFull(c)
                   THEN [c EXCEPT !.readIndex = wrapIndex(c, c.readIndex + 1)]
                   ELSE [c EXCEPT !.count = c.count + 1]
             c2 == [c1 EXCEPT !.writeIndex = wrapIndex(c1, c1.writeIndex + 1)]
         IN  [cb |-> IF c2.pBuffer = NULL THEN c2
                     ELSE [c2 EXCEPT !.pBuffer = SetSlot(c2.pBuffer, c2.writeIndex, v)],
              ret |-> CB_SUCCESS,
              access |-> <<"write", c2.writeIndex>>]

(***************************************************************************)
(* cb_push(cb, data) under the build's full policy pol.  A write through a *)
(* NULL pBuffer is reported in access and stores nothing here.             *)
(***************************************************************************)
cb_push(c, v, pol) ==
    IF ~c.isInitialized
    THEN [cb |-> c, ret |-> CB_ERROR_NULL_POINTER, access |-> NoAccess]
    ELSE IF cb_isFull(c) /\ pol = POLICY_REJECT_NEW
    THEN [cb |-> c, ret |-> CB_ERROR_FULL, access |-> NoAccess]
    ELSE LET c1 == IF cb_isFull(c)
                   THEN [c EXCEPT !.readIndex = wrapIndex(c, c.readIndex + 1)]
                   ELSE [c EXCEPT !.count = c.count + 1]
             c2 == IF c1.pBuffer = NULL THEN c1
                   ELSE [c1 EXCEPT !.pBuffer = SetSlot(c1.pBuffer, c1.writeIndex, v)]
         IN  [cb |-> [c2 EXCEPT !.writeIndex = wrapIndex(c2, c2.writeIndex + 1)],
              ret |-> CB_SUCCESS,
              access |-> <<"write", c1.writeIndex>>]

\* cb_pop that advances readIndex before it reads the slot
cb_pop_readsAfterAdvance(c, pNull, old, wild) ==
    IF ~c.isInitialized \/ pNull
    THEN [cb |-> c, ret |-> CB_ERROR_NULL_POINTER, data |-> old, access |-> NoAccess]
    ELSE IF cb_isEmpty(c)
    THEN [cb |-> c, ret |-> CB_ERROR_EMPTY, data |-> old, access |-> NoAccess]
    ELSE LET ri == wrapIndex(c, c.readIndex + 1)
         IN  [cb |-> [c EXCEPT !.readIndex = ri, !.count = c.count - 1],
              ret |-> CB_SUCCESS,
              data |-> IF c.pBuffer = NULL THEN wild ELSE Slot(c.pBuffer, ri),
              access |-> <<"read", ri>>]

\* cb_pop without the empty check
cb_pop_noEmptyCheck(c, pNull, old, wild) ==
    IF ~c.isInitialized \/ pNull
    THEN [cb |-> c, ret |-> CB_ERROR_NULL_POINTER, data |-> old, access |-> NoAccess]
    ELSE [cb |-> [c EXCEPT !.readIndex = wrapIndex(c, c.readIndex + 1),
                           !.count = c.count - 1],
          ret |-> CB_SUCCESS,
          data |-> IF c.pBuffer = NULL THEN wild ELSE Slot(c.pBuffer, c.readIndex),
          access |-> <<"read", c.readIndex>>]

\* cb_pop that advances readIndex by two slots
cb_pop_skipsSlot(c, pNull, old, wild) ==
    IF ~c.isInitialized \/ pNull
    THEN [cb |-> c, ret |-> CB_ERROR_NULL_POINTER, data |-> old, access |-> NoAccess]
    ELSE IF cb_isEmpty(c)
    THEN [cb |-> c, ret |-> CB_ERROR_EMPTY, data |-> old, access |-> NoAccess]
    ELSE [cb |-> [c EXCEPT !.readIndex = wrapIndex(c, c.readIndex + 2),
                           !.count = c.count - 1],
          ret |-> CB_SUCCESS,
          data |-> IF c.pBuffer = NULL THEN wild ELSE Slot(c.pBuffer, c.readIndex),
          access |-> <<"read", c.readIndex>>]

\* cb_pop that tests for an empty buffer before it tests pData
cb_pop_emptyCheckFirst(c, pNull, old, wild) ==
    IF ~c.isInitialized
    THEN [cb |-> c, ret |-> CB_ERROR_NULL_POINTER, data |-> old, access |-> NoAccess]
    ELSE IF cb_isEmpty(c)
    THEN [cb |-> c, ret |-> CB_ERROR_EMPTY, data |-> old, access |-> NoAccess]
    ELSE IF pNull
    THEN [cb |-> c, ret |-> CB_ERROR_NULL_POINTER, data |-> old, access |-> NoAccess]
    ELSE [cb |-> [c EXCEPT !.readIndex = wrapIndex(c, c.readIndex + 1),
                           !.count = c.count - 1],
          ret |-> CB_SUCCESS,
          data |-> IF c.pBuffer = NULL THEN wild ELSE Slot(c.pBuffer, c.readIndex),
          access |-> <<"read", c.readIndex>>]

(***************************************************************************)
(* cb_pop(cb, pData).  pNull: pData == NULL; old: *pData before the call;  *)
(* wild: what a read through a NULL pBuffer yields.                        *)
(***************************************************************************)
cb_pop(c, pNull, old, wild) ==
    IF ~c.isInitialized
    THEN [cb |-> c, ret |-> CB_ERROR_NULL_POINTER, data |-> old, access |-> NoAccess]
    ELSE IF pNull
    THEN [cb |-> c, ret |-> CB_ERROR_NULL_POINTER, data |-> old, access |-> NoAccess]
    ELSE IF cb_isEmpty(c)
    THEN [cb |-> c, ret |-> CB_ERROR_EMPTY, data |-> old, access |-> NoAccess]
    ELSE [cb |-> [c EXCEPT !.readIndex = wrapIndex(c, c.readIndex + 1),
                           !.count = c.count - 1],
          ret |-> CB_SUCCESS,
          data |-> IF c.pBuffer = NULL THEN wild ELSE Slot(c.pBuffer, c.readIndex),
          access |-> <<"read", c.readIndex>>]

cb_getCount(c) == IF ~c.isInitialized THEN 0 ELSE c.count

\* cb_getFreeSpace that subtracts count from indexMask
cb_getFreeSpace_fromMask(c) == IF ~c.isInitialized THEN 0 ELSE c.indexMask - c.count

cb_getFreeSpace(c) == IF ~c.isInitialized THEN 0 ELSE c.capacity - c.count

\* cb_clear without the isInitialized check
cb_clear_noCheck(c) ==
    [cb |-> [c EXCEPT !.writeIndex = 0, !.readIndex = 0, !.count = 0],
     ret |-> CB_SUCCESS]

\* cb_clear that resets the cursors and leaves count as it is
cb_clear_keepsCount(c) ==
    IF ~c.isInitialized
    THEN [cb |-> c, ret |-> CB_ERROR_NULL_POINTER]
    ELSE [cb |-> [c EXCEPT !.writeIndex = 0, !.readIndex = 0],
          ret |-> CB_SUCCESS]

cb_clear(c) ==
    IF ~c.isInitialized
    THEN [cb |-> c, ret |-> CB_ERROR_NULL_POINTER]
    ELSE [cb |-> [c EXCEPT !.writeIndex = 0, !.readIndex = 0, !.count = 0],
          ret |-> CB_SUCCESS]

\* cb_peek that removes the element it returns
cb_peek_consumes(c, pNull, old, wild) ==
    IF ~c.isInitialized \/ pNull
    THEN [cb |-> c, ret |-> CB_ERROR_NULL_POINTER, data |-> old, access |-> NoAccess]
    ELSE IF cb_isEmpty(c)
    THEN [cb |-> c, ret |-> CB_ERROR_EMPTY, data |-> old, access |-> NoAccess]
    ELSE [cb |-> [c EXCEPT !.readIndex = wrapIndex(c, c.readIndex + 1),
                           !.count = c.count - 1],
          ret |-> CB_SUCCESS,
          data |-> IF c.pBuffer = NULL THEN wild ELSE Slot(c.pBuffer, c.readIndex),
          access |-> <<"read", c.readIndex>>]

cb_peek(c, pNull, old, wild) ==
    IF ~c.isInitialized \/ pNull
    THEN [cb |-> c, ret |-> CB_ERROR_NULL_POINTER, data |-> old, access |-> NoAccess]
    ELSE IF cb_isEmpty(c)
    THEN [cb |-> c, ret |-> CB_ERROR_EMPTY, data |-> old, access |-> NoAccess]
    ELSE [cb |-> c, ret |-> CB_SUCCESS,
          data |-> IF c.pBuffer = NULL THEN wild ELSE Slot(c.pBuffer, c.readIndex),
          access |-> <<"read", c.readIndex>>]

(***************************************************************************)
(* The slots from readIndex on, count of them, as cb_printContents walks.  *)
(***************************************************************************)
Contents(c) ==
    [i \in 1 .. c.count |-> Slot(c.pBuffer, wrapIndex(c, c.readIndex + (i - 1)))]

(***************************************************************************)
(* Lifecycle as the program can observe it.  Ready is what a successful    *)
(* cb_init establishes and cb_deinit ends: the flag set and storage held.  *)
(***************************************************************************)
Ready == cb.isInitialized /\ cb.pBuffer # NULL

CBool(b) == IF b THEN 1 ELSE 0

Call(op, pNull, arg) == [op |-> op, pNull |-> pNull, arg |-> arg]

NoHistory == live' = <<>>

\* A call whose storage access went through a NULL pBuffer and trapped.
Trap(op, pNull, arg) ==
    /\ call' = Call(op, pNull, arg)
    /\ fault' = TRUE
    /\ UNCHANGED <<cb, policy, allocated, data, ret, access, live>>

\* no RingBuffer is in use
NoRing == [buffer |-> <<>>, head |-> 0, tail |-> 0, count |-> 0]

NoRingCall == [ret |-> 0, data |-> 0, calls |-> 0]

\* init32 before cb_init has been called on size32
NotCalled == [called |-> FALSE]

\* no logged run, no main() and no 32-bit size check is under way
NoRun ==
    /\ hist = <<>>
    /\ prog = "none" /\ line = "none" /\ loopI = 0
    /\ size32 = {} /\ sizeBits = 0 /\ init32 = NotCalled
    /\ word = {} /\ shift = 0 /\ wres = NotCalled /\ wsteps = 0
    /\ rb = NoRing /\ rbOut = NoRingCall
    /\ value = 0

Init ==
    /\ NoRun
    /\ cb = ZeroStruct
    /\ policy \in {POLICY_OVERWRITE_OLDEST, POLICY_REJECT_NEW}
    /\ allocated = 0
    /\ data = 0
    /\ call = Call("none", FALSE, 0)
    /\ ret = 0
    /\ access = NoAccess
    /\ fault = FALSE
    /\ live = <<>>
    /\ armArch = FALSE      \* the plain functions use no critical section
    /\ irqOff = FALSE
    /\ pc = "idle"
    /\ reg = 0
    /\ isr = [arg |-> 0, ret |-> 0]

DoInit ==
    /\ ~fault
    /\ \E size \in Sizes, mallocOk \in BOOLEAN :
        /\ mallocOk => allocated < MaxBlocks
        /\ LET r == cb_init(cb, size, mallocOk)
           IN  /\ cb' = r.cb
               /\ ret' = r.ret
               /\ allocated' = allocated + r.got
               /\ call' = Call("init", FALSE, size)
               /\ access' = NoAccess
               /\ IF r.ret = CB_ERROR_INVALID_SIZE
                  THEN UNCHANGED <<live>>
                  ELSE NoHistory
               /\ UNCHANGED <<policy, data, fault>>

DoDeinit ==
    /\ ~fault
    /\ LET r == cb_deinit(cb)
       IN  /\ cb' = r.cb
           /\ ret' = r.ret
           /\ allocated' = allocated - r.freed
           /\ call' = Call("deinit", FALSE, 0)
           /\ access' = NoAccess
           /\ NoHistory
           /\ UNCHANGED <<policy, data, fault>>

DoPush ==
    /\ ~fault
    /\ \E v \in Data :
        LET r == cb_push(cb, v, policy)
            ok == Ready /\ r.ret = CB_SUCCESS
        IN  \/ /\ r.access # NoAccess
               /\ cb.pBuffer = NULL
               /\ Trap("push", FALSE, v)
            \/ /\ cb' = r.cb
               /\ ret' = r.ret
               /\ access' = r.access
               /\ call' = Call("push", FALSE, v)
               /\ live' = IF ~ok THEN live
                          ELSE IF Len(live) = cb.capacity
                          THEN Append(Tail(live), v)
                          ELSE Append(live, v)
               /\ UNCHANGED <<policy, allocated, data, fault>>

DoPop ==
    /\ ~fault
    /\ \E pNull \in BOOLEAN, wild \in {0} \cup Data :
        LET r == cb_pop(cb, pNull, data, wild)
        IN  /\ (cb.pBuffer # NULL \/ r.access = NoAccess) => wild = 0
            /\ \/ /\ r.access # NoAccess
                  /\ cb.pBuffer = NULL
                  /\ Trap("pop", pNull, 0)
               \/ /\ cb' = r.cb
                  /\ ret' = r.ret
                  /\ data' = r.data
                  /\ access' = r.access
                  /\ call' = Call("pop", pNull, 0)
                  /\ live' = IF Ready /\ r.ret = CB_SUCCESS /\ live # <<>>
                             THEN Tail(live) ELSE live
                  /\ UNCHANGED <<policy, allocated, fault>>

DoPeek ==
    /\ ~fault
    /\ \E pNull \in BOOLEAN, wild \in {0} \cup Data :
        LET r == cb_peek(cb, pNull, data, wild)
        IN  /\ (cb.pBuffer # NULL \/ r.access = NoAccess) => wild = 0
            /\ \/ /\ r.access # NoAccess
                  /\ cb.pBuffer = NULL
                  /\ Trap("peek", pNull, 0)
               \/ /\ cb' = r.cb
                  /\ ret' = r.ret
                  /\ data' = r.data
                  /\ access' = r.access
                  /\ call' = Call("peek", pNull, 0)
                  /\ UNCHANGED <<policy, allocated, fault, live>>

DoClear ==
    /\ ~fault
    /\ LET r == cb_clear(cb)
       IN  /\ cb' = r.cb
           /\ ret' = r.ret
           /\ access' = NoAccess
           /\ call' = Call("clear", FALSE, 0)
           /\ IF r.ret = CB_SUCCESS THEN NoHistory
              ELSE UNCHANGED <<live>>
           /\ UNCHANGED <<policy, allocated, data, fault>>

\* A query: it returns r and changes no field.
Query(op, r) ==
    /\ ~fault
    /\ call' = Call(op, FALSE, 0)
    /\ ret' = r
    /\ access' = NoAccess
    /\ UNCHANGED <<cb, policy, allocated, data, fault, live>>

DoIsEmpty == Query("isEmpty", CBool(cb_isEmpty(cb)))

DoIsFull == Query("isFull", CBool(cb_isFull(cb)))

DoGetCount == Query("getCount", cb_getCount(cb))

DoGetFreeSpace == Query("getFreeSpace", cb_getFreeSpace(cb))

Next ==
    /\ \/ DoInit
       \/ DoDeinit
       \/ DoPush
       \/ DoPop
       \/ DoPeek
       \/ DoClear
       \/ DoIsEmpty
       \/ DoIsFull
       \/ DoGetCount
       \/ DoGetFreeSpace
    /\ UNCHANGED <<conc, logged, mainv, wide>>

Spec == Init /\ [][Next]_vars

(***************************************************************************)
(* Interrupt-driven use: the main loop (consumer) runs cb_pop_safe one     *)
(* memory access at a time, and the producer's cb_push_safe runs to        *)
(* completion whenever it is allowed to start.  With __ARM_ARCH the        *)
(* producer is an interrupt handler, which starts at any instruction       *)
(* boundary at which interrupts are enabled.  Without it the macros are    *)
(* empty and there is no interrupt: the producer is called from the same   *)
(* thread, between the main loop's calls.                                  *)
(***************************************************************************)

\* ENTER_CRITICAL with no effect on any build
ENTER_CRITICAL_empty(arm, irq) == irq

\* ENTER_CRITICAL() / EXIT_CRITICAL(): the interrupt-disable flag afterwards
ENTER_CRITICAL(arm, irq) == IF arm THEN TRUE ELSE irq

EXIT_CRITICAL(arm, irq) == IF arm THEN FALSE ELSE irq

ValidSizes == {n \in Sizes : n # 0 /\ isPowerOfTwo(n)}

InitConc ==
    /\ NoRun
    /\ \E size \in ValidSizes : cb = cb_init(ZeroStruct, size, TRUE).cb
    /\ policy \in {POLICY_OVERWRITE_OLDEST, POLICY_REJECT_NEW}
    /\ allocated = 1
    /\ data = 0
    /\ call = Call("init", FALSE, 0)
    /\ ret = CB_SUCCESS
    /\ access = NoAccess
    /\ fault = FALSE
    /\ live = <<>>
    /\ armArch \in BOOLEAN
    /\ irqOff = FALSE
    /\ pc = "idle"
    /\ reg = 0
    /\ isr = [arg |-> 0, ret |-> 0]

\* the producer may start its call here
ProducerMayRun == IF armArch THEN ~irqOff ELSE pc = "idle"

\* cb_push_safe(cb, v) by the producer, start to return
ProducerPush ==
    /\ ProducerMayRun
    /\ \E v \in Data :
        LET r == cb_push(cb, v, policy)
        IN  /\ cb' = r.cb
            /\ isr' = [arg |-> v, ret |-> r.ret]
            /\ irqOff' = EXIT_CRITICAL(armArch, ENTER_CRITICAL(armArch, irqOff))
            /\ live' = IF r.ret # CB_SUCCESS THEN live
                       ELSE IF Len(live) = cb.capacity
                       THEN Append(Tail(live), v)
                       ELSE Append(live, v)
            /\ UNCHANGED <<policy, allocated, data, call, ret, access, fault,
                           armArch, pc, reg>>

\* cb_pop_safe: ENTER_CRITICAL()
PopEnter ==
    /\ pc = "idle"
    /\ irqOff' = ENTER_CRITICAL(armArch, irqOff)
    /\ call' = Call("pop_safe", FALSE, 0)
    /\ pc' = "check"
    /\ UNCHANGED <<cb, policy, allocated, data, ret, access, fault, live,
                   armArch, reg, isr>>

\* a pop that waits at its emptiness test until the producer has pushed
PopCheck_waitsForData ==
    /\ pc = "check"
    /\ cb.isInitialized /\ ~cb_isEmpty(cb)
    /\ ret' = ret /\ pc' = "loadRead"
    /\ access' = NoAccess
    /\ UNCHANGED <<cb, policy, allocated, data, call, fault, live,
                   armArch, irqOff, reg, isr>>

\* cb_pop: the isInitialized and cb_isEmpty tests
PopCheck ==
    /\ pc = "check"
    /\ IF ~cb.isInitialized
       THEN ret' = CB_ERROR_NULL_POINTER /\ pc' = "exit"
       ELSE IF cb_isEmpty(cb)
       THEN ret' = CB_ERROR_EMPTY /\ pc' = "exit"
       ELSE ret' = ret /\ pc' = "loadRead"
    /\ access' = NoAccess
    /\ UNCHANGED <<cb, policy, allocated, data, call, fault, live,
                   armArch, irqOff, reg, isr>>

\* *pData = cb->pBuffer[cb->readIndex]: the load of readIndex
PopLoadRead ==
    /\ pc = "loadRead"
    /\ reg' = cb.readIndex
    /\ pc' = "loadSlot"
    /\ UNCHANGED <<cb, policy, allocated, data, call, ret, access, fault, live,
                   armArch, irqOff, isr>>

\* *pData = cb->pBuffer[cb->readIndex]: the load of the slot and the store
PopLoadSlot ==
    /\ pc = "loadSlot"
    /\ data' = Slot(cb.pBuffer, reg)
    /\ access' = <<"read", reg>>
    /\ pc' = "loadIndex"
    /\ UNCHANGED <<cb, policy, allocated, call, ret, fault, live,
                   armArch, irqOff, reg, isr>>

\* cb->readIndex = wrapIndex(cb, cb->readIndex + 1): the load
PopLoadIndex ==
    /\ pc = "loadIndex"
    /\ reg' = cb.readIndex
    /\ pc' = "storeIndex"
    /\ UNCHANGED <<cb, policy, allocated, data, call, ret, access, fault, live,
                   armArch, irqOff, isr>>

\* cb->readIndex = wrapIndex(cb, cb->readIndex + 1): the store
PopStoreIndex ==
    /\ pc = "storeIndex"
    /\ cb' = [cb EXCEPT !.readIndex = wrapIndex(cb, reg + 1)]
    /\ pc' = "loadCount"
    /\ UNCHANGED <<policy, allocated, data, call, ret, access, fault, live,
                   armArch, irqOff, reg, isr>>

\* cb->count--: the load
PopLoadCount ==
    /\ pc = "loadCount"
    /\ reg' = cb.count
    /\ pc' = "storeCount"
    /\ UNCHANGED <<cb, policy, allocated, data, call, ret, access, fault, live,
                   armArch, irqOff, isr>>

\* cb->count--: the store; return CB_SUCCESS
PopStoreCount ==
    /\ pc = "storeCount"
    /\ cb' = [cb EXCEPT !.count = reg - 1]
    /\ ret' = CB_SUCCESS
    /\ live' = IF live = <<>> THEN live ELSE Tail(live)
    /\ reg' = 0
    /\ pc' = "exit"
    /\ UNCHANGED <<policy, allocated, data, call, access, fault,
                   armArch, irqOff, isr>>

\* cb_pop_safe: EXIT_CRITICAL(); return result
PopExit ==
    /\ pc = "exit"
    /\ irqOff' = EXIT_CRITICAL(armArch, irqOff)
    /\ pc' = "idle"
    /\ UNCHANGED <<cb, policy, allocated, data, call, ret, access, fault, live,
                   armArch, reg, isr>>

NextConc ==
    /\ \/ ProducerPush
       \/ PopEnter
       \/ PopCheck
       \/ PopLoadRead
       \/ PopLoadSlot
       \/ PopLoadIndex
       \/ PopStoreIndex
       \/ PopLoadCount
       \/ PopStoreCount
       \/ PopExit
    /\ UNCHANGED <<logged, mainv, wide, value>>

SpecConc == InitConc /\ [][NextConc]_vars

\* a step of the main loop inside a cb_pop_safe call it has started
ConsumerStep ==
    /\ \/ PopCheck
       \/ PopLoadRead
       \/ PopLoadSlot
       \/ PopLoadIndex
       \/ PopStoreIndex
       \/ PopLoadCount
       \/ PopStoreCount
       \/ PopExit
    /\ UNCHANGED <<logged, mainv, wide, value>>

\* The main loop keeps executing the call it is in: inside the call the
\* producer cannot take the processor from it for ever, because with
\* __ARM_ARCH interrupts are disabled there and without it there is no
\* interrupt.  Starting a call is left to the client.
SpecConcFair == SpecConc /\ WF_vars(ConsumerStep)

\* the run is one of interrupt-driven use: it began with the Ready buffer of
\* InitConc and has made guarded calls only
GuardedUse ==
    \/ call.op = "pop_safe"
    \/ call = Call("init", FALSE, 0) /\ ret = CB_SUCCESS

\* A client that uses the buffer from one thread with the plain calls, or
\* one that shares an initialized buffer between the main loop and the
\* producer through cb_push_safe and cb_pop_safe only.
InitEither == Init \/ InitConc

NextEither == (~GuardedUse /\ Next) \/ (GuardedUse /\ NextConc)

SpecEither == InitEither /\ [][NextEither]_vars

\* the main loop is between ENTER_CRITICAL() and EXIT_CRITICAL()
InCritical ==
    pc \in {"check", "loadRead", "loadSlot", "loadIndex", "storeIndex",
            "loadCount", "storeCount", "exit"}

(***************************************************************************)
(* A polling consumer: the main loop asks cb_isEmpty and calls             *)
(* cb_pop_safe, while the producer pushes as in SpecConc.  line is "pop"   *)
(* from a cb_isEmpty that returned false until the return of the next      *)
(* cb_pop_safe.                                                            *)
(***************************************************************************)
pollFrame == <<logged, prog, loopI, wide>>

\* cb_isEmpty(cb) by the main loop, between its guarded calls
PollIsEmpty ==
    /\ pc = "idle"
    /\ DoIsEmpty
    /\ line' = IF cb_isEmpty(cb) THEN "none" ELSE "pop"
    /\ UNCHANGED <<conc, pollFrame>>

PollPush == ProducerPush /\ UNCHANGED <<line, value, pollFrame>>

PollPopStep ==
    /\ \/ PopEnter
       \/ PopCheck
       \/ PopLoadRead
       \/ PopLoadSlot
       \/ PopLoadIndex
       \/ PopStoreIndex
       \/ PopLoadCount
       \/ PopStoreCount
    /\ UNCHANGED <<line, value, pollFrame>>

PollPopExit == PopExit /\ line' = "none" /\ UNCHANGED <<value, pollFrame>>

NextPoll == PollIsEmpty \/ PollPush \/ PollPopStep \/ PollPopExit

SpecPoll == InitConc /\ [][NextPoll]_vars

(***************************************************************************)
(* The calls that have no guarded form, cb_clear and cb_peek, made by the  *)
(* main loop while the producer pushes through cb_push_safe.  The main     *)
(* loop is outside any critical section, so with __ARM_ARCH the producer   *)
(* may run between any two of its memory accesses; without it the producer *)
(* runs between the calls.  prog is the call the main loop keeps making.   *)
(* During a cb_peek, hist collects the values that were the oldest unread  *)
(* value at some moment of the call.                                       *)
(***************************************************************************)
InitPreempt ==
    /\ \E size \in ValidSizes : cb = cb_init(ZeroStruct, size, TRUE).cb
    /\ policy \in {POLICY_OVERWRITE_OLDEST, POLICY_REJECT_NEW}
    /\ allocated = 1
    /\ data = 0
    /\ call = Call("init", FALSE, 0)
    /\ ret = CB_SUCCESS
    /\ access = NoAccess
    /\ fault = FALSE
    /\ live = <<>>
    /\ armArch \in BOOLEAN
    /\ irqOff = FALSE /\ pc = "idle" /\ reg = 0
    /\ isr = [arg |-> 0, ret |-> 0]
    /\ hist = <<>>
    /\ prog \in {"clear", "peek"}
    /\ line = "none" /\ loopI = 0
    /\ size32 = {} /\ sizeBits = 0 /\ init32 = NotCalled
    /\ word = {} /\ shift = 0 /\ wres = NotCalled /\ wsteps = 0
    /\ rb = NoRing /\ rbOut = NoRingCall
    /\ value = 0

preemptFrame == <<prog, line, loopI, wide, value>>

\* v is among the values collected in h
Seen(h, v) == \E k \in 1 .. Len(h) : h[k] = v

\* h with the oldest value of the queue q added
WithOldest(h, q) ==
    IF q = <<>> \/ Seen(h, Head(q)) THEN h ELSE Append(h, Head(q))

\* cb_push_safe by the producer, wherever it may start
PreemptPush ==
    /\ ProducerPush
    /\ hist' = IF pc # "idle" /\ prog = "peek" THEN WithOldest(hist, live')
               ELSE hist
    /\ UNCHANGED preemptFrame

\* the main loop calls cb_clear(cb)
ClearEnter ==
    /\ pc = "idle" /\ prog = "clear"
    /\ call' = Call("clear", FALSE, 0)
    /\ pc' = "clearCheck"
    /\ UNCHANGED <<cb, policy, allocated, data, ret, access, fault, live,
                   armArch, irqOff, reg, isr, hist, preemptFrame>>

\* cb_clear: the isInitialized test
ClearCheck ==
    /\ pc = "clearCheck"
    /\ IF ~cb.isInitialized
       THEN ret' = CB_ERROR_NULL_POINTER /\ pc' = "idle"
       ELSE ret' = ret /\ pc' = "clearWrite"
    /\ access' = NoAccess
    /\ UNCHANGED <<cb, policy, allocated, data, call, fault, live,
                   armArch, irqOff, reg, isr, hist, preemptFrame>>

\* cb->writeIndex = 0
ClearWrite ==
    /\ pc = "clearWrite"
    /\ cb' = [cb EXCEPT !.writeIndex = 0]
    /\ pc' = "clearRead"
    /\ UNCHANGED <<policy, allocated, data, call, ret, access, fault, live,
                   armArch, irqOff, reg, isr, hist, preemptFrame>>

\* cb->readIndex = 0
ClearRead ==
    /\ pc = "clearRead"
    /\ cb' = [cb EXCEPT !.readIndex = 0]
    /\ pc' = "clearCount"
    /\ UNCHANGED <<policy, allocated, data, call, ret, access, fault, live,
                   armArch, irqOff, reg, isr, hist, preemptFrame>>

\* cb->count = 0; return CB_SUCCESS
ClearCount ==
    /\ pc = "clearCount"
    /\ cb' = [cb EXCEPT !.count = 0]
    /\ ret' = CB_SUCCESS
    /\ live' = <<>>
    /\ pc' = "idle"
    /\ UNCHANGED <<policy, allocated, data, call, access, fault,
                   armArch, irqOff, reg, isr, hist, preemptFrame>>

\* the main loop calls cb_peek(cb, &value)
PeekEnter ==
    /\ pc = "idle" /\ prog = "peek"
    /\ call' = Call("peek", FALSE, 0)
    /\ hist' = WithOldest(<<>>, live)
    /\ pc' = "peekCheck"
    /\ UNCHANGED <<cb, policy, allocated, data, ret, access, fault, live,
                   armArch, irqOff, reg, isr, preemptFrame>>

\* cb_peek: the isInitialized and cb_isEmpty tests
PeekCheck ==
    /\ pc = "peekCheck"
    /\ IF ~cb.isInitialized
       THEN ret' = CB_ERROR_NULL_POINTER /\ pc' = "idle"
       ELSE IF cb_isEmpty(cb)
       THEN ret' = CB_ERROR_EMPTY /\ pc' = "idle"
       ELSE ret' = ret /\ pc' = "peekLoadRead"
    /\ access' = NoAccess
    /\ UNCHANGED <<cb, policy, allocated, data, call, fault, live,
                   armArch, irqOff, reg, isr, hist, preemptFrame>>

\* *pData = cb->pBuffer[cb->readIndex]: the load of readIndex
PeekLoadRead ==
    /\ pc = "peekLoadRead"
    /\ reg' = cb.readIndex
    /\ pc' = "peekLoadSlot"
    /\ UNCHANGED <<cb, policy, allocated, data, call, ret, access, fault, live,
                   armArch, irqOff, isr, hist, preemptFrame>>

\* *pData = cb->pBuffer[cb->readIndex]: the load of the slot and the
\* store; return CB_SUCCESS
PeekLoadSlot ==
    /\ pc = "peekLoadSlot"
    /\ data' = Slot(cb.pBuffer, reg)
    /\ access' = <<"read", reg>>
    /\ ret' = CB_SUCCESS
    /\ reg' = 0
    /\ pc' = "idle"
    /\ UNCHANGED <<cb, policy, allocated, call, fault, live,
                   armArch, irqOff, isr, hist, preemptFrame>>

NextPreempt ==
    \/ PreemptPush
    \/ ClearEnter
    \/ ClearCheck
    \/ ClearWrite
    \/ ClearRead
    \/ ClearCount
    \/ PeekEnter
    \/ PeekCheck
    \/ PeekLoadRead
    \/ PeekLoadSlot

SpecPreempt == InitPreempt /\ [][NextPreempt]_vars

(***************************************************************************)
(* A counter shared between the main loop and an interrupt handler, as     *)
(* count is in cb_push and cb_pop and as SafeCounter_t is in               *)
(* 09_volatile_critical.c.  The main loop's count++ and count-- are a      *)
(* load, an add and a store; in the program "safe" they stand between      *)
(* ENTER_CRITICAL() and EXIT_CRITICAL() as in safeCounter_increment and    *)
(* safeCounter_decrement, in the program "race" they stand bare.  The      *)
(* handler increments the counter and returns.  hist logs the start value  *)
(* and every update made, with a mark on the handler's updates that fell   *)
(* between a load and the store of the main loop.                          *)
(***************************************************************************)
MaxUpdates == 3

CounterStarts == {0, 5}

Update(w, d, in) == [who |-> w, delta |-> d, inside |-> in]

InitCounter ==
    /\ cb = ZeroStruct
    /\ policy = POLICY_OVERWRITE_OLDEST
    /\ allocated = 0
    /\ data = 0
    /\ call = Call("none", FALSE, 0)
    /\ ret = 0
    /\ access = NoAccess
    /\ fault = FALSE
    /\ live = <<>>
    /\ armArch \in BOOLEAN
    /\ irqOff = FALSE /\ pc = "idle" /\ reg = 0
    /\ isr = [arg |-> 0, ret |-> 0]
    /\ value \in CounterStarts
    /\ hist = <<Update("start", value, FALSE)>>
    /\ prog \in {"race", "safe"}
    /\ line = "none" /\ loopI = 0
    /\ size32 = {} /\ sizeBits = 32 /\ init32 = NotCalled
    /\ word = {} /\ shift = 0 /\ wres = NotCalled /\ wsteps = 0
    /\ rb = NoRing /\ rbOut = NoRingCall

counterFrame ==
    <<cb, policy, allocated, data, ret, access, fault, live, armArch, isr,
      mainv, wide>>

\* the main loop starts count++ or count--; "safe": ENTER_CRITICAL()
CntEnter ==
    /\ pc = "idle"
    /\ Len(hist) <= MaxUpdates
    /\ \E op \in {"inc", "dec"} :
        /\ call' = Call(op, FALSE, 0)
        /\ pc' = IF op = "dec" THEN "check" ELSE "load"
    /\ irqOff' = IF prog = "safe" THEN ENTER_CRITICAL(armArch, irqOff)
                 ELSE irqOff
    /\ UNCHANGED <<reg, value, hist, counterFrame>>

\* if (counter->value > 0), and the emptiness test of cb_pop
CntCheck ==
    /\ pc = "check"
    /\ IF value > 0
       THEN pc' = "load" /\ hist' = hist
       ELSE pc' = "exit" /\ hist' = Append(hist, Update("main", 0, FALSE))
    /\ UNCHANGED <<call, irqOff, reg, value, counterFrame>>

\* LOAD: temp = count
CntLoad ==
    /\ pc = "load"
    /\ reg' = value
    /\ pc' = "add"
    /\ UNCHANGED <<call, irqOff, value, hist, counterFrame>>

\* ADD: temp = temp + 1, or temp - 1
CntAdd ==
    /\ pc = "add"
    /\ reg' = IF call.op = "inc" THEN reg + 1 ELSE reg - 1
    /\ pc' = "store"
    /\ UNCHANGED <<call, irqOff, value, hist, counterFrame>>

\* STORE: count = temp
CntStore ==
    /\ pc = "store"
    /\ value' = reg
    /\ hist' = Append(hist, Update("main", IF call.op = "inc" THEN 1 ELSE -1,
                                   FALSE))
    /\ pc' = "exit"
    /\ UNCHANGED <<call, irqOff, reg, counterFrame>>

\* "safe": EXIT_CRITICAL(); return
CntExit ==
    /\ pc = "exit"
    /\ irqOff' = IF prog = "safe" THEN EXIT_CRITICAL(armArch, irqOff)
                 ELSE irqOff
    /\ pc' = "idle"
    /\ UNCHANGED <<call, reg, value, hist, counterFrame>>

\* the handler's count++, start to return; it starts wherever the
\* producer of the buffer may start
IsrIncrement ==
    /\ ProducerMayRun
    /\ Len(hist) <= MaxUpdates
    /\ value' = value + 1
    /\ hist' = Append(hist, Update("isr", 1, pc \in {"add", "store"}))
    /\ irqOff' = IF prog = "safe"
                 THEN EXIT_CRITICAL(armArch, ENTER_CRITICAL(armArch, irqOff))
                 ELSE irqOff
    /\ UNCHANGED <<call, pc, reg, counterFrame>>

NextCounter ==
    \/ CntEnter
    \/ CntCheck
    \/ CntLoad
    \/ CntAdd
    \/ CntStore
    \/ CntExit
    \/ IsrIncrement

SpecCounter == InitCounter /\ [][NextCounter]_vars

\* the sum of the start value and of the updates logged
RECURSIVE SumDeltas(_)
SumDeltas(h) == IF h = <<>> THEN 0 ELSE Head(h).delta + SumDeltas(Tail(h))

\* the number of logged updates that fell between a load and its store
RECURSIVE LostUpdates(_)
LostUpdates(h) ==
    IF h = <<>> THEN 0
    ELSE (IF Head(h).inside THEN 1 ELSE 0) + LostUpdates(Tail(h))

(***************************************************************************)
(* Logged runs: a client initializes the buffer with a valid size and then *)
(* makes up to MaxCalls calls of push, pop and deinit; hist keeps every    *)
(* call with what it returned and what it left in *pData.                  *)
(***************************************************************************)
\* f: cb_isFull answered true right before the call
LogEntry(c, r, d, f) == [call |-> c, ret |-> r, data |-> d, full |-> f]

InitLog ==
    /\ \E size \in ValidSizes :
        /\ cb = cb_init(ZeroStruct, size, TRUE).cb
        /\ call = Call("init", FALSE, size)
        /\ hist = <<LogEntry(Call("init", FALSE, size), CB_SUCCESS, 0, FALSE)>>
    /\ policy \in {POLICY_OVERWRITE_OLDEST, POLICY_REJECT_NEW}
    /\ allocated = 1
    /\ data = 0
    /\ ret = CB_SUCCESS
    /\ access = NoAccess
    /\ fault = FALSE
    /\ live = <<>>
    /\ armArch = FALSE /\ irqOff = FALSE /\ pc = "idle" /\ reg = 0
    /\ isr = [arg |-> 0, ret |-> 0]
    /\ prog = "none" /\ line = "none" /\ loopI = 0
    /\ size32 = {} /\ sizeBits = 0 /\ init32 = NotCalled
    /\ word = {} /\ shift = 0 /\ wres = NotCalled /\ wsteps = 0
    /\ rb = NoRing /\ rbOut = NoRingCall
    /\ value = 0

\* the call this step makes is appended to the log
Logged ==
    /\ Len(hist) <= MaxCalls
    /\ hist' = Append(hist, LogEntry(call', ret', data', cb_isFull(cb)))
    /\ UNCHANGED <<conc, mainv, wide>>

LogPush == DoPush /\ Logged

LogPop == DoPop /\ Logged

LogDeinit == DoDeinit /\ Logged

NextLog ==
    \/ LogPush
    \/ LogPop
    \/ LogDeinit

SpecLog == InitLog /\ [][NextLog]_vars

\* the calls made after init, and whether all of them were pushes
CallsMade == Len(hist) - 1

OnlyPushes == \A k \in 2 .. Len(hist) : hist[k].call.op = "push"

(***************************************************************************)
(* main(): the test program of circular_buffer.c and of                    *)
(* 10_circular_buffer_mini.c, one API call per step.  The two differ in    *)
(* Test 4, which pushes 100, 110, ... up to 190 in the one and up to 170   *)
(* in the other.  cb_printStatus and cb_printContents only print.          *)
(***************************************************************************)
MAIN_SIZE == 8

Test4Last == IF prog = "mini" THEN 170 ELSE 190

InitMain ==
    /\ cb = ZeroStruct
    /\ policy \in {POLICY_OVERWRITE_OLDEST, POLICY_REJECT_NEW}
    /\ allocated = 0
    /\ data = 0
    /\ call = Call("none", FALSE, 0)
    /\ ret = 0
    /\ access = NoAccess
    /\ fault = FALSE
    /\ live = <<>>
    /\ armArch = FALSE /\ irqOff = FALSE /\ pc = "idle" /\ reg = 0
    /\ isr = [arg |-> 0, ret |-> 0]
    /\ hist = <<>>
    /\ prog \in {"circular_buffer", "mini"}
    /\ line = "test1"
    /\ loopI = 0
    /\ size32 = {} /\ sizeBits = 0 /\ init32 = NotCalled
    /\ word = {} /\ shift = 0 /\ wres = NotCalled /\ wsteps = 0
    /\ rb = NoRing /\ rbOut = NoRingCall
    /\ value = 0

\* one call made by main(): what it returns and leaves behind
MainCall(c, r, newCb, newData, acc, newLive) ==
    /\ call' = c
    /\ ret' = r
    /\ cb' = newCb
    /\ data' = newData
    /\ access' = acc
    /\ live' = newLive
    /\ hist' = Append(hist, LogEntry(c, r, newData, cb_isFull(cb)))
    /\ UNCHANGED <<policy, fault, conc, prog, wide>>

MainPush(v) ==
    LET r == cb_push(cb, v, policy)
    IN  /\ MainCall(Call("push", FALSE, v), r.ret, r.cb, data, r.access,
                    IF r.ret # CB_SUCCESS THEN live
                    ELSE IF Len(live) = cb.capacity THEN Append(Tail(live), v)
                    ELSE Append(live, v))
        /\ allocated' = allocated

MainPop ==
    LET r == cb_pop(cb, FALSE, data, 0)
    IN  /\ MainCall(Call("pop", FALSE, 0), r.ret, r.cb, r.data, r.access,
                    IF r.ret = CB_SUCCESS /\ live # <<>> THEN Tail(live)
                    ELSE live)
        /\ allocated' = allocated

MainGetCount ==
    /\ MainCall(Call("getCount", FALSE, 0), cb_getCount(cb), cb, data,
                NoAccess, live)
    /\ allocated' = allocated

\* Test 1: cb_init(&buffer, 8); main returns -1 when it fails
MainTest1 ==
    /\ line = "test1"
    /\ \E mallocOk \in BOOLEAN :
        LET r == cb_init(cb, MAIN_SIZE, mallocOk)
        IN  /\ MainCall(Call("init", FALSE, MAIN_SIZE), r.ret, r.cb, data,
                        NoAccess, <<>>)
            /\ allocated' = allocated + r.got
            /\ line' = IF r.ret # CB_SUCCESS THEN "exit" ELSE "test2"
            /\ loopI' = 1

\* Test 2: for (i = 1; i <= 5; i++) cb_push(&buffer, i * 10)
MainTest2 ==
    /\ line = "test2"
    /\ MainPush(loopI * 10)
    /\ IF loopI + 1 <= 5
       THEN loopI' = loopI + 1 /\ line' = "test2"
       ELSE loopI' = 0 /\ line' = "test3"

\* Test 3: for (i = 0; i < 2; i++) cb_pop(&buffer, &data)
MainTest3 ==
    /\ line = "test3"
    /\ MainPop
    /\ IF loopI + 1 < 2
       THEN loopI' = loopI + 1 /\ line' = "test3"
       ELSE loopI' = 100 /\ line' = "test4"

\* Test 4: for (i = 100; i <= last; i += 10) { cb_push(&buffer, i); ...
MainTest4Push ==
    /\ line = "test4"
    /\ MainPush(loopI)
    /\ loopI' = loopI
    /\ line' = "test4count"

\* ... cb_getCount(&buffer) }
MainTest4Count ==
    /\ line = "test4count"
    /\ MainGetCount
    /\ IF loopI + 10 <= Test4Last
       THEN loopI' = loopI + 10 /\ line' = "test4"
       ELSE loopI' = 0 /\ line' = "test5"

\* Test 5: cb_clear(&buffer) ...
MainTest5Clear ==
    /\ line = "test5"
    /\ LET r == cb_clear(cb)
       IN  MainCall(Call("clear", FALSE, 0), r.ret, r.cb, data, NoAccess,
                    IF r.ret = CB_SUCCESS THEN <<>> ELSE live)
    /\ allocated' = allocated
    /\ loopI' = loopI
    /\ line' = "test5pop"

\* ... and cb_pop(&buffer, &data) on the cleared buffer
MainTest5Pop ==
    /\ line = "test5pop"
    /\ MainPop
    /\ loopI' = loopI
    /\ line' = "test6"

\* Test 6: cb_push(&buffer, 999) ...
MainTest6Push ==
    /\ line = "test6"
    /\ MainPush(999)
    /\ loopI' = loopI
    /\ line' = "test6peek"

\* ... cb_peek(&buffer, &data) ...
MainTest6Peek ==
    /\ line = "test6peek"
    /\ LET r == cb_peek(cb, FALSE, data, 0)
       IN  MainCall(Call("peek", FALSE, 0), r.ret, r.cb, r.data, r.access, live)
    /\ allocated' = allocated
    /\ loopI' = loopI
    /\ line' = "test6count"

\* ... and cb_getCount(&buffer)
MainTest6Count ==
    /\ line = "test6count"
    /\ MainGetCount
    /\ loopI' = loopI
    /\ line' = "test7"

\* Test 7: cb_deinit(&buffer); return 0
MainTest7 ==
    /\ line = "test7"
    /\ LET r == cb_deinit(cb)
       IN  /\ MainCall(Call("deinit", FALSE, 0), r.ret, r.cb, data, NoAccess,
                       <<>>)
           /\ allocated' = allocated - r.freed
    /\ loopI' = loopI
    /\ line' = "exit"

NextMain ==
    \/ MainTest1
    \/ MainTest2
    \/ MainTest3
    \/ MainTest4Push
    \/ MainTest4Count
    \/ MainTest5Clear
    \/ MainTest5Pop
    \/ MainTest6Push
    \/ MainTest6Peek
    \/ MainTest6Count
    \/ MainTest7

SpecMain == InitMain /\ [][NextMain]_vars

\* the pushes of Test 4 in the log, and those of them made on a full buffer
Test4Pushes ==
    {k \in DOMAIN hist : hist[k].call.op = "push" /\ hist[k].call.arg \in 100 .. 190}

Test4Overwrites == {k \in Test4Pushes : hist[k].full /\ hist[k].ret = CB_SUCCESS}

(***************************************************************************)
(* Every use of the API by one thread: the arbitrary call sequences of     *)
(* Spec and the fixed sequences of the two main() programs.                *)
(***************************************************************************)
InitUse == Init \/ InitMain

NextUse ==
    \/ (line = "none" /\ Next)
    \/ NextMain

SpecUse == InitUse /\ [][NextUse]_vars

(***************************************************************************)
(* cb_init over the whole range of its uint32_t argument.  A value is the  *)
(* set of the positions of its 1 bits, so 2^31 and 0xFFFFFFFF are values   *)
(* like any other.  The byte count passed to malloc is computed in size_t, *)
(* whose width the build decides; the storage is followed only as the      *)
(* number of whole elements the block has room for.                        *)
(***************************************************************************)
UINT32_BITS == 32

\* sizeof(SensorData_t) == 4 == 1 << ELEM_SHIFT
ELEM_SHIFT == 2

\* n - 1 in uint32_t arithmetic: 0 - 1 wraps to 0xFFFFFFFF
Dec32(w) ==
    IF w = {} THEN 0 .. (UINT32_BITS - 1)
    ELSE LET low == CHOOSE b \in w : \A c \in w : b <= c
         IN  (w \ {low}) \cup (0 .. (low - 1))

isPowerOfTwo32(w) == (w # {}) /\ ((w \cap Dec32(w)) = {})

\* sizeof(SensorData_t) * size, reduced modulo 2^bits
AllocBytes(w, bits) == {b + ELEM_SHIFT : b \in w} \cap (0 .. (bits - 1))

\* the number of whole elements a block of that many bytes holds
SlotsIn(bytes) == {b - ELEM_SHIFT : b \in {c \in bytes : c >= ELEM_SHIFT}}

\* cb_init(cb, size) on a zero-filled struct: the return value, the fields
\* it wrote and the room of the block it holds (mallocOk: malloc returned
\* a block, which for a request of 0 bytes the allocator may or may not do)
cb_init32(w, bits, mallocOk) ==
    IF w = {} \/ ~isPowerOfTwo32(w)
    THEN [ret |-> CB_ERROR_INVALID_SIZE, capacity |-> {}, indexMask |-> {},
          held |-> FALSE, slots |-> {}, isInitialized |-> FALSE]
    ELSE IF ~mallocOk
    THEN [ret |-> CB_ERROR_NULL_POINTER, capacity |-> w, indexMask |-> Dec32(w),
          held |-> FALSE, slots |-> {}, isInitialized |-> FALSE]
    ELSE [ret |-> CB_SUCCESS, capacity |-> w, indexMask |-> Dec32(w),
          held |-> TRUE, slots |-> SlotsIn(AllocBytes(w, bits)),
          isInitialized |-> TRUE]

\* the sizes tried: 0, every value with one or two bits set, 0xFFFFFFFF
SizeSamples ==
    {{}} \cup {{j, k} : j, k \in 0 .. (UINT32_BITS - 1)}
         \cup {0 .. (UINT32_BITS - 1)}

SizeWidths == {32, 64}

InitSize ==
    /\ cb = ZeroStruct
    /\ policy = POLICY_OVERWRITE_OLDEST
    /\ allocated = 0
    /\ data = 0
    /\ call = Call("none", FALSE, 0)
    /\ ret = 0
    /\ access = NoAccess
    /\ fault = FALSE
    /\ live = <<>>
    /\ armArch = FALSE /\ irqOff = FALSE /\ pc = "idle" /\ reg = 0
    /\ isr = [arg |-> 0, ret |-> 0]
    /\ hist = <<>>
    /\ prog = "none" /\ line = "none" /\ loopI = 0
    /\ size32 \in SizeSamples
    /\ sizeBits \in SizeWidths
    /\ init32 = NotCalled
    /\ word = {} /\ shift = 0 /\ wres = NotCalled /\ wsteps = 0
    /\ rb = NoRing /\ rbOut = NoRingCall
    /\ value = 0

DoInit32 ==
    /\ init32 = NotCalled
    /\ \E mallocOk \in BOOLEAN :
        init32' = cb_init32(size32, sizeBits, mallocOk)
    /\ UNCHANGED <<cb, policy, allocated, data, call, ret, access, fault, live,
                   conc, logged, mainv, size32, sizeBits,
                   word, shift, wres, wsteps, rb, rbOut>>

NextSize == DoInit32

SpecSize == InitSize /\ [][NextSize]_vars

(***************************************************************************)
(* The bit helpers over the whole range of uint32_t: isPowerOfTwo as the   *)
(* three files define it, and the two index wraps of 06_bitmask_wrap.c.    *)
(* A value is again the set of the positions of its 1 bits; the remainder  *)
(* of the division is computed arithmetically, by long division over the   *)
(* bits of the index, and never by masking.                                *)
(***************************************************************************)

\* iterations of the loop in demonstrateOverflowPrevention
OVERFLOW_STEPS == 5

\* n + 1 in uint32_t arithmetic: 0xFFFFFFFF + 1 wraps to 0
Inc32(w) ==
    IF w = 0 .. (UINT32_BITS - 1) THEN {}
    ELSE LET zero == CHOOSE b \in (0 .. (UINT32_BITS - 1)) \ w :
                         \A c \in (0 .. (UINT32_BITS - 1)) \ w : b <= c
         IN  (w \ (0 .. (zero - 1))) \cup {zero}

\* isPowerOfTwo of 10_circular_buffer_mini.c
isPowerOfTwoMini(w) == (w # {}) /\ ((w \cap Dec32(w)) = {})

\* isPowerOfTwo without the test for 0
isPowerOfTwo05_noZeroTest(w) == (w \cap Dec32(w)) = {}

\* isPowerOfTwo of 05_bitwise_power_of_two.c
isPowerOfTwo05(w) == IF w = {} THEN FALSE ELSE (w \cap Dec32(w)) = {}

\* n >> k
Shr32(w, k) == {b - k : b \in {c \in w : c >= k}}

\* nextPowerOfTwo of 05_bitwise_power_of_two.c
nextPowerOfTwo(w) ==
    IF w = {} THEN {0}
    ELSE IF isPowerOfTwo05(w) THEN w
    ELSE LET n0 == Dec32(w)
             n1 == n0 \cup Shr32(n0, 1)
             n2 == n1 \cup Shr32(n1, 2)
             n3 == n2 \cup Shr32(n2, 4)
             n4 == n3 \cup Shr32(n3, 8)
             n5 == n4 \cup Shr32(n4, 16)
         IN  Inc32(n5)

\* the number that the bits k .. 30 of w stand for when bit k counts 1
RECURSIVE ValueFrom(_, _)
ValueFrom(w, k) ==
    IF k > UINT32_BITS - 2 THEN 0
    ELSE 2 * ValueFrom(w, k + 1) + (IF k \in w THEN 1 ELSE 0)

\* the number a set of bit positions below 31 stands for
ValueOf(w) == ValueFrom(w, 0)

\* index & size, the mask taken one too large
wrapIndexMask_bySize(index, mask) == index \cap Inc32(mask)

wrapIndexMask(index, mask) == index \cap mask

\* the remainder of the bits k..0 of index prepended to the remainder r so
\* far, on division by last + 1
RECURSIVE Remainder(_, _, _, _)
Remainder(index, k, r, last) ==
    IF k < 0 THEN r
    ELSE LET bit == IF k \in index THEN 1 ELSE 0
             r2 == IF r > last - r - bit THEN (r - 1) - (last - r - bit)
                   ELSE 2 * r + bit
         IN  Remainder(index, k - 1, r2, last)

\* index % size, for a size of at most 2^31
wrapIndexModulo(index, size) ==
    Remainder(index, UINT32_BITS - 1, 0, ValueOf(Dec32(size)))

\* the values tried: 0, every 2^k, every 2^k - 1, every 2^31 + 2^k, and
\* the values from 0xFFFFFFFB to 0xFFFFFFFF
WordSamples ==
    {{}} \cup {{k} : k \in 0 .. (UINT32_BITS - 1)}
         \cup {Dec32({k}) : k \in 0 .. (UINT32_BITS - 1)}
         \cup {{k, UINT32_BITS - 1} : k \in 0 .. (UINT32_BITS - 1)}
         \cup {(0 .. (UINT32_BITS - 1)) \ d : d \in SUBSET {0, 1, 2}}

InitWord ==
    /\ cb = ZeroStruct
    /\ policy = POLICY_OVERWRITE_OLDEST
    /\ allocated = 0
    /\ data = 0
    /\ call = Call("none", FALSE, 0)
    /\ ret = 0
    /\ access = NoAccess
    /\ fault = FALSE
    /\ live = <<>>
    /\ armArch = FALSE /\ irqOff = FALSE /\ pc = "idle" /\ reg = 0
    /\ isr = [arg |-> 0, ret |-> 0]
    /\ hist = <<>>
    /\ prog = "none" /\ line = "none" /\ loopI = 0
    /\ size32 = {} /\ sizeBits = 32 /\ init32 = NotCalled
    /\ word \in WordSamples
    /\ shift \in 0 .. (UINT32_BITS - 1)
    /\ wres = NotCalled
    /\ wsteps = 0
    /\ rb = NoRing /\ rbOut = NoRingCall
    /\ value = 0

wordFrame ==
    <<cb, policy, allocated, data, call, ret, access, fault, live,
      conc, logged, mainv, size32, sizeBits, init32, rb, rbOut>>

\* isPowerOfTwo(word) in each of the three files
DoIsPowerOfTwo ==
    /\ wres' = [called |-> TRUE, op |-> "isPowerOfTwo", n |-> word,
                main |-> isPowerOfTwo32(word),
                mini |-> isPowerOfTwoMini(word),
                demo |-> isPowerOfTwo05(word)]
    /\ UNCHANGED <<word, shift, wsteps, wordFrame>>

\* wrapIndexMask(word, size - 1) and wrapIndexModulo(word, size) for the
\* size 1 << shift
DoWrap ==
    /\ wres' = [called |-> TRUE, op |-> "wrap", index |-> word,
                size |-> {shift},
                masked |-> wrapIndexMask(word, Dec32({shift})),
                modulo |-> wrapIndexModulo(word, {shift})]
    /\ UNCHANGED <<word, shift, wsteps, wordFrame>>

\* nextPowerOfTwo(word)
DoNextPowerOfTwo ==
    /\ wres' = [called |-> TRUE, op |-> "nextPowerOfTwo", n |-> word,
                result |-> nextPowerOfTwo(word)]
    /\ UNCHANGED <<word, shift, wsteps, wordFrame>>

\* largeIndex++
DoIncrement ==
    /\ wsteps < OVERFLOW_STEPS
    /\ word' = Inc32(word)
    /\ wsteps' = wsteps + 1
    /\ UNCHANGED <<shift, wres, wordFrame>>

NextWord == DoIsPowerOfTwo \/ DoWrap \/ DoNextPowerOfTwo \/ DoIncrement

SpecWord == InitWord /\ [][NextWord]_vars

(***************************************************************************)
(* The RingBuffer of coding_skill/14_ring_buffer.c, which wraps its        *)
(* cursors with % RING_BUFFER_SIZE and stores uint8_t, run side by side    *)
(* with a CircularBuffer_t of the same capacity under the reject policy:   *)
(* every call is made on both with the same argument.                      *)
(***************************************************************************)
RING_BUFFER_SIZE == 8

\* the values a uint8_t holds are 0 .. UINT8_RANGE - 1
UINT8_RANGE == 256

\* the calls made in one run
MaxRingCalls == 17

\* the values pushed: one that fits uint8_t and one that does not
RingValues == {2, 257}

\* the conversion of an int argument to the uint8_t parameter
ToUint8(v) == v % UINT8_RANGE

RingBuffer_Init ==
    [buffer |-> [k \in 1 .. RING_BUFFER_SIZE |-> 0],
     head |-> 0, tail |-> 0, count |-> 0]

\* RingBuffer_Push that wraps the cursor with the mask instead of the size
RingBuffer_Push_moduloMask(r, v) ==
    IF r.count >= RING_BUFFER_SIZE
    THEN [rb |-> r, ret |-> -1]
    ELSE [rb |-> [r EXCEPT !.buffer[r.tail + 1] = ToUint8(v),
                           !.tail = (r.tail + 1) % (RING_BUFFER_SIZE - 1),
                           !.count = r.count + 1],
          ret |-> 0]

RingBuffer_Push(r, v) ==
    IF r.count >= RING_BUFFER_SIZE
    THEN [rb |-> r, ret |-> -1]
    ELSE [rb |-> [r EXCEPT !.buffer[r.tail + 1] = ToUint8(v),
                           !.tail = (r.tail + 1) % RING_BUFFER_SIZE,
                           !.count = r.count + 1],
          ret |-> 0]

\* old: *data before the call
RingBuffer_Pop(r, old) ==
    IF r.count = 0
    THEN [rb |-> r, ret |-> -1, data |-> old]
    ELSE [rb |-> [r EXCEPT !.head = (r.head + 1) % RING_BUFFER_SIZE,
                           !.count = r.count - 1],
          ret |-> 0,
          data |-> r.buffer[r.head + 1]]

InitRing ==
    /\ cb = cb_init(ZeroStruct, RING_BUFFER_SIZE, TRUE).cb
    /\ policy = POLICY_REJECT_NEW
    /\ allocated = 1
    /\ data = 0
    /\ call = Call("init", FALSE, RING_BUFFER_SIZE)
    /\ ret = CB_SUCCESS
    /\ access = NoAccess
    /\ fault = FALSE
    /\ live = <<>>
    /\ armArch = FALSE /\ irqOff = FALSE /\ pc = "idle" /\ reg = 0
    /\ isr = [arg |-> 0, ret |-> 0]
    /\ hist = <<>>
    /\ prog = "none" /\ line = "none" /\ loopI = 0
    /\ size32 = {} /\ sizeBits = 0 /\ init32 = NotCalled
    /\ word = {} /\ shift = 0 /\ wres = NotCalled /\ wsteps = 0
    /\ rb = RingBuffer_Init
    /\ rbOut = NoRingCall
    /\ value = 0

ringFrame ==
    <<policy, allocated, fault, conc, logged, mainv,
      size32, sizeBits, init32, word, shift, wres, wsteps>>

\* cb_push(&cb, v) and RingBuffer_Push(&rb, v)
RingPush ==
    /\ rbOut.calls < MaxRingCalls
    /\ \E v \in RingValues :
        LET c == cb_push(cb, v, policy)
            r == RingBuffer_Push(rb, v)
        IN  /\ cb' = c.cb
            /\ ret' = c.ret
            /\ access' = c.access
            /\ call' = Call("push", FALSE, v)
            /\ live' = IF c.ret = CB_SUCCESS THEN Append(live, v) ELSE live
            /\ rb' = r.rb
            /\ rbOut' = [rbOut EXCEPT !.ret = r.ret, !.calls = @ + 1]
            /\ UNCHANGED <<data, ringFrame>>

\* cb_pop(&cb, &value) and RingBuffer_Pop(&rb, &data)
RingPop ==
    /\ rbOut.calls < MaxRingCalls
    /\ LET c == cb_pop(cb, FALSE, data, 0)
           r == RingBuffer_Pop(rb, rbOut.data)
       IN  /\ cb' = c.cb
           /\ ret' = c.ret
           /\ data' = c.data
           /\ access' = c.access
           /\ call' = Call("pop", FALSE, 0)
           /\ live' = IF c.ret = CB_SUCCESS THEN Tail(live) ELSE live
           /\ rb' = r.rb
           /\ rbOut' = [ret |-> r.ret, data |-> r.data,
                        calls |-> rbOut.calls + 1]
           /\ UNCHANGED ringFrame

NextRing == RingPush \/ RingPop

SpecRing == InitRing /\ [][NextRing]_vars

(***************************************************************************)
(* Claims checked under Spec.                                              *)
(***************************************************************************)

\* C1: on a Ready buffer every successful pop stores to *pData the oldest
\* value that was pushed with success and has been neither popped nor
\* discarded by an overwriting push, so pops come out in push order with only
\* the overwritten values skipped (none are skipped under the reject policy).
C1_FifoOrder ==
    [][/\ (Ready /\ call'.op = "pop" /\ ret' = CB_SUCCESS)
            => (live # <<>> /\ data' = Head(live))
       /\ (Ready /\ call'.op = "push" /\ ret' = CB_SUCCESS
              /\ policy = POLICY_REJECT_NEW)
            => (Len(live) < cb.capacity /\ live' = Append(live, call'.arg))]_vars

\* a pop on a buffer of four slots returned 2 while the next oldest is 1,
\* after an overwriting push had discarded older values
C1_Witness ==
    /\ Ready
    /\ call.op = "pop" /\ ret = CB_SUCCESS /\ data = 2
    /\ cb.capacity = 4 /\ cb.count = 3 /\ cb.readIndex = 2
    /\ live # <<>> /\ Head(live) = 1
    /\ policy = POLICY_OVERWRITE_OLDEST

\* C3: under the reject policy a push on a full Ready buffer returns
\* CB_ERROR_FULL and leaves every field and every storage slot as it was.
C3_RejectNewKeepsState ==
    [][(Ready /\ policy = POLICY_REJECT_NEW /\ cb.count = cb.capacity
          /\ call'.op = "push")
         => (ret' = CB_ERROR_FULL /\ cb' = cb /\ access' = NoAccess)]_vars

C3_Witness ==
    /\ Ready /\ policy = POLICY_REJECT_NEW
    /\ call.op = "push" /\ ret = CB_ERROR_FULL
    /\ cb.capacity = 4 /\ cb.count = 4

\* C4: under the overwrite policy a push on a full Ready buffer returns
\* CB_SUCCESS, keeps count at capacity, advances readIndex and writeIndex by
\* one masked step each, stores the value in the slot of the oldest element,
\* and the next pop yields what was the second-oldest element.
C4_OverwriteOldest ==
    [][(Ready /\ policy = POLICY_OVERWRITE_OLDEST /\ cb.count = cb.capacity
          /\ call'.op = "push")
         => /\ ret' = CB_SUCCESS
            /\ cb'.count = cb.capacity
            /\ cb'.readIndex = BitAnd(cb.readIndex + 1, cb.indexMask)
            /\ cb'.writeIndex = BitAnd(cb.writeIndex + 1, cb.indexMask)
            /\ cb'.pBuffer = SetSlot(cb.pBuffer, cb.readIndex, call'.arg)
            /\ cb.capacity >= 2 =>
                 /\ Len(live) >= 2
                 /\ cb_pop(cb', FALSE, data, 0).ret = CB_SUCCESS
                 /\ cb_pop(cb', FALSE, data, 0).data = live[2]]_vars

\* an overwriting push on a full four-slot buffer whose cursors had wrapped
C4_Witness ==
    /\ Ready /\ policy = POLICY_OVERWRITE_OLDEST
    /\ call.op = "push" /\ ret = CB_SUCCESS
    /\ cb.capacity = 4 /\ cb.count = 4 /\ cb.readIndex = 0 /\ cb.writeIndex = 0
    /\ Len(live) = 4 /\ live[4] = call.arg /\ live[1] # live[4]
    /\ Slot(cb.pBuffer, 3) = call.arg

\* C5: a pop on an empty Ready buffer, given an output location, returns
\* CB_ERROR_EMPTY and changes no field, no slot and not the output location.
C5_PopEmptyKeepsState ==
    [][(Ready /\ cb.count = 0 /\ call'.op = "pop" /\ ~call'.pNull)
         => (ret' = CB_ERROR_EMPTY /\ cb' = cb /\ data' = data
             /\ access' = NoAccess)]_vars

\* an empty pop after the buffer had held data and the caller a popped value
C5_Witness ==
    /\ Ready /\ cb.count = 0 /\ cb.readIndex = 2
    /\ call.op = "pop" /\ ~call.pNull /\ ret = CB_ERROR_EMPTY
    /\ data = 2

\* C6: while the buffer is initialized, 0 <= count <= capacity.
C6_CountInRange ==
    cb.isInitialized => (0 <= cb.count /\ cb.count <= cb.capacity)

\* a full four-slot buffer right after an overwriting push
C6_Witness ==
    /\ Ready /\ cb.capacity = 4 /\ cb.count = 4 /\ cb.readIndex = 3
    /\ call.op = "push" /\ ret = CB_SUCCESS

\* C7: while the buffer is initialized, writeIndex and readIndex are in
\* [0, capacity), and the slot a push, pop or peek touched is in that range
\* and, on a Ready buffer, inside the held block.
C7_IndicesInRange ==
    cb.isInitialized =>
        /\ cb.writeIndex \in 0 .. (cb.capacity - 1)
        /\ cb.readIndex \in 0 .. (cb.capacity - 1)
        /\ access # NoAccess => access[2] \in 0 .. (cb.capacity - 1)
        /\ Ready => Len(cb.pBuffer) = cb.capacity

\* the write cursor has wrapped from the last slot back to 0
C7_Witness ==
    /\ Ready /\ cb.capacity = 4
    /\ call.op = "push" /\ access = <<"write", 3>> /\ cb.writeIndex = 0
    /\ cb.readIndex = 2

\* C8: on a Ready buffer isEmpty is true exactly when count == 0, isFull
\* exactly when count == capacity, the calls return just that, and the two
\* are never true together.
C8_EmptyFullQueries ==
    Ready =>
        /\ cb_isEmpty(cb) <=> (cb.count = 0)
        /\ cb_isFull(cb) <=> (cb.count = cb.capacity)
        /\ ~(cb_isEmpty(cb) /\ cb_isFull(cb))
        /\ call.op = "isEmpty" => ret = CBool(cb.count = 0)
        /\ call.op = "isFull" => ret = CBool(cb.count = cb.capacity)

\* isFull answered true on a one-slot buffer whose cursors coincide
C8_Witness ==
    /\ Ready /\ cb.capacity = 1 /\ cb.count = 1
    /\ call.op = "isFull" /\ ret = 1
    /\ ~cb_isEmpty(cb)

GuardedOps ==
    {"push", "pop", "peek", "clear", "isEmpty", "isFull", "getCount",
     "getFreeSpace"}

\* what each guarded function returns when isInitialized is false
NotInitializedResult(op) ==
    IF op \in {"push", "pop", "peek", "clear"} THEN CB_ERROR_NULL_POINTER
    ELSE IF op = "isEmpty" THEN 1
    ELSE 0

C10_FailedInitUninitialized ==
    (call.op = "init" /\ ret # CB_SUCCESS)
        => (~cb.isInitialized /\ cb.pBuffer = NULL)

\* sizes that are zero or not a power of two, among them those past the
\* sizes init is tried with
RejectedSizes == {n \in 0 .. 7 : ~isPowerOfTwo(n)} \cup {100}

\* C11: init with size 0 or a size that is not a power of two returns
\* CB_ERROR_INVALID_SIZE, requests no storage and writes no field of the
\* buffer, whatever state the buffer is in and whatever malloc would do.
C11_InvalidSizeRejected ==
    /\ [][(call'.op = "init" /\ ~isPowerOfTwo(call'.arg))
            => (ret' = CB_ERROR_INVALID_SIZE /\ cb' = cb
                /\ allocated' = allocated)]_vars
    /\ [](\A size \in RejectedSizes, mallocOk \in BOOLEAN :
            cb_init(cb, size, mallocOk) =
                [cb |-> cb, ret |-> CB_ERROR_INVALID_SIZE, got |-> 0])

\* init(3) was rejected on a Ready buffer that holds data
C11_Witness ==
    /\ call.op = "init" /\ call.arg = 3 /\ ret = CB_ERROR_INVALID_SIZE
    /\ Ready /\ cb.capacity = 4 /\ cb.count = 2 /\ allocated = 1

\* C13 as stated: when malloc returns no block, init returns an
\* allocation-failure result that differs from the null-argument result
\* (which is also what the guarded functions return on a buffer that is not
\* initialized) and from the invalid-size result.
C13_AllocationFailureDistinct ==
    (call.op = "init" /\ isPowerOfTwo(call.arg) /\ ret # CB_SUCCESS)
        => (ret < 0 /\ ret \notin {CB_ERROR_NULL_POINTER, CB_ERROR_INVALID_SIZE})

\* C15: a peek on a Ready buffer, given an output location, changes no
\* field and no slot (so getCount answers the same before and after); on a
\* non-empty buffer it returns CB_SUCCESS and stores the value of the slot at
\* readIndex, which is the value the next pop returns and the oldest
\* surviving value; on an empty buffer it returns CB_ERROR_EMPTY and leaves
\* the output location alone.
C15_PeekFrame ==
    [][(Ready /\ call'.op = "peek" /\ ~call'.pNull)
         => /\ cb' = cb
            /\ allocated' = allocated
            /\ cb_getCount(cb') = cb_getCount(cb)
            /\ IF cb.count = 0
               THEN ret' = CB_ERROR_EMPTY /\ data' = data /\ access' = NoAccess
               ELSE /\ ret' = CB_SUCCESS
                    /\ access' = <<"read", cb.readIndex>>
                    /\ cb_pop(cb', FALSE, data', 0).ret = CB_SUCCESS
                    /\ cb_pop(cb', FALSE, data', 0).data = data'
                    /\ data' = Head(live)]_vars

\* a peek returned 2 from a four-slot buffer whose read cursor stands at the
\* last slot, with a different value next in line
C15_Witness ==
    /\ Ready /\ cb.capacity = 4 /\ cb.readIndex = 3 /\ cb.count = 3
    /\ call.op = "peek" /\ ~call.pNull /\ ret = CB_SUCCESS /\ data = 2
    /\ live = <<2, 1, 2>>

\* C16: a clear on a Ready buffer returns CB_SUCCESS, sets writeIndex,
\* readIndex and count to 0 and changes nothing else: capacity, indexMask,
\* isInitialized, the block and every slot of it stay; after it isEmpty is
\* true, isFull is false and a pop returns CB_ERROR_EMPTY.
C16_ClearFrame ==
    [][(Ready /\ call'.op = "clear")
         => /\ ret' = CB_SUCCESS
            /\ cb' = [cb EXCEPT !.writeIndex = 0, !.readIndex = 0, !.count = 0]
            /\ allocated' = allocated
            /\ data' = data
            /\ cb_isEmpty(cb') /\ ~cb_isFull(cb')
            /\ cb_pop(cb', FALSE, data, 0) =
                 [cb |-> cb', ret |-> CB_ERROR_EMPTY, data |-> data,
                  access |-> NoAccess]]_vars

\* a four-slot buffer was cleared with every slot still holding a pushed
\* value
C16_Witness ==
    /\ Ready /\ cb.capacity = 4 /\ cb.indexMask = 3
    /\ call.op = "clear" /\ ret = CB_SUCCESS
    /\ cb.count = 0 /\ cb.readIndex = 0 /\ cb.writeIndex = 0
    /\ cb.pBuffer = <<1, 2, 2, 1>>
    /\ live = <<>>

\* a cursor keeps its value or advances by one masked step
CursorStep(old, new) == new = old \/ new = BitAnd(old + 1, cb.indexMask)

\* C21 as stated: across every single push, pop, peek, clear or query on a
\* Ready buffer, writeIndex and readIndex each keep their value or become
\* (old value + 1) & indexMask.
C21_CursorsStepByOne ==
    [][(Ready /\ call'.op \in GuardedOps)
         => /\ CursorStep(cb.writeIndex, cb'.writeIndex)
            /\ CursorStep(cb.readIndex, cb'.readIndex)]_vars

\* C21 as amended: across every single push, pop, peek or query on a Ready
\* buffer each cursor keeps its value or becomes (old value + 1) & indexMask
\* (a successful push advances writeIndex, and readIndex too when it
\* overwrites; a successful pop advances readIndex; everything else keeps
\* both), while clear sets both cursors to 0 from wherever they stand.
C21_CursorsStepOrReset ==
    [][(Ready /\ call'.op \in GuardedOps)
         => LET w1 == BitAnd(cb.writeIndex + 1, cb.indexMask)
                r1 == BitAnd(cb.readIndex + 1, cb.indexMask)
            IN  IF call'.op = "clear"
                THEN cb'.writeIndex = 0 /\ cb'.readIndex = 0
                ELSE IF call'.op = "push" /\ ret' = CB_SUCCESS
                THEN /\ cb'.writeIndex = w1
                     /\ cb'.readIndex = (IF cb.count = cb.capacity THEN r1
                                         ELSE cb.readIndex)
                ELSE IF call'.op = "pop" /\ ret' = CB_SUCCESS
                THEN cb'.writeIndex = cb.writeIndex /\ cb'.readIndex = r1
                ELSE /\ cb'.writeIndex = cb.writeIndex
                     /\ cb'.readIndex = cb.readIndex]_vars

\* a pop has moved the read cursor from the last slot of four back to 0
\* while the write cursor stands at 2
C21_Witness ==
    /\ Ready /\ cb.capacity = 4
    /\ call.op = "pop" /\ ret = CB_SUCCESS /\ access = <<"read", 3>>
    /\ cb.readIndex = 0 /\ cb.writeIndex = 2 /\ cb.count = 2

\* C22 as stated: on a Ready buffer every call other than deinit and a
\* successful init (push, pop, peek, clear, the queries and an init that
\* returns an error) leaves capacity and indexMask as they were, capacity a
\* power of two and indexMask == capacity - 1.
C22_CapacityImmutable ==
    [][(Ready /\ call'.op # "deinit"
          /\ ~(call'.op = "init" /\ ret' = CB_SUCCESS))
         => /\ cb'.capacity = cb.capacity
            /\ cb'.indexMask = cb.indexMask
            /\ isPowerOfTwo(cb'.capacity)
            /\ cb'.indexMask = cb'.capacity - 1]_vars

\* C23: on a Ready buffer a successful push writes exactly the slot at the
\* writeIndex of before the call and no other slot changes; a rejected push,
\* pop, peek, clear and the queries change no slot; a successful pop or peek
\* reads exactly the slot at the readIndex of before the call, and no other
\* call reads a slot.
C23_StorageFrame ==
    [][(Ready /\ call'.op \in GuardedOps)
         => IF call'.op = "push" /\ ret' = CB_SUCCESS
            THEN /\ access' = <<"write", cb.writeIndex>>
                 /\ cb'.pBuffer = SetSlot(cb.pBuffer, cb.writeIndex, call'.arg)
            ELSE /\ cb'.pBuffer = cb.pBuffer
                 /\ IF call'.op \in {"pop", "peek"} /\ ret' = CB_SUCCESS
                    THEN /\ access' = <<"read", cb.readIndex>>
                         /\ data' = Slot(cb.pBuffer, cb.readIndex)
                    ELSE access' = NoAccess /\ data' = data]_vars

\* an overwriting push has stored 2 over the 1 in slot 2 of a full buffer
C23_Witness ==
    /\ Ready /\ cb.capacity = 4 /\ cb.count = 4
    /\ policy = POLICY_OVERWRITE_OLDEST
    /\ call = Call("push", FALSE, 2) /\ ret = CB_SUCCESS
    /\ access = <<"write", 2>>
    /\ cb.pBuffer = <<1, 1, 2, 1>>
    /\ cb.readIndex = 3

\* C24: on a Ready buffer getFreeSpace is capacity - count, which is never
\* negative; count and free space add up to capacity; free space is 0
\* exactly when isFull and capacity exactly when isEmpty; the getFreeSpace
\* and getCount calls return just these values.
C24_FreeSpace ==
    Ready =>
        /\ cb_getFreeSpace(cb) = cb.capacity - cb.count
        /\ cb_getFreeSpace(cb) >= 0
        /\ cb_getCount(cb) + cb_getFreeSpace(cb) = cb.capacity
        /\ (cb_getFreeSpace(cb) = 0) <=> cb_isFull(cb)
        /\ (cb_getFreeSpace(cb) = cb.capacity) <=> cb_isEmpty(cb)
        /\ call.op = "getFreeSpace" => ret = cb.capacity - cb.count
        /\ call.op = "getCount" => ret = cb.count

\* getFreeSpace answered 1 on a four-slot buffer that holds three values
C24_Witness ==
    /\ Ready /\ cb.capacity = 4 /\ cb.count = 3
    /\ call.op = "getFreeSpace" /\ ret = 1
    /\ cb.readIndex = 3

\* C30 as stated: in every state reached by init (malloc succeeding or
\* failing), push, pop, peek, clear and deinit calls, isInitialized implies
\* that a block is held and has exactly capacity slots, and no call
\* dereferences missing storage.
C30_InitializedHasStorage ==
    /\ cb.isInitialized => (cb.pBuffer # NULL /\ Len(cb.pBuffer) = cb.capacity)
    /\ ~fault

\* C31 as stated: over any sequence of init and deinit calls (and the other
\* calls between them) at most one storage block obtained by init is
\* outstanding, and after a deinit none is.
C31_OneBlockOutstanding ==
    /\ allocated <= 1
    /\ call.op = "deinit" => allocated = 0

\* C37: pop and peek on a Ready buffer with a NULL output location return
\* CB_ERROR_NULL_POINTER and leave readIndex, writeIndex, count and every
\* slot as they were, whether the buffer is empty or not (on an empty buffer
\* the answer is not CB_ERROR_EMPTY), and no element is consumed.
C37_NullOutputRejected ==
    [][(Ready /\ call'.op \in {"pop", "peek"} /\ call'.pNull)
         => /\ ret' = CB_ERROR_NULL_POINTER
            /\ cb' = cb
            /\ access' = NoAccess
            /\ data' = data
            /\ live' = live]_vars

\* pop with a NULL output location was answered with CB_ERROR_NULL_POINTER
\* on a four-slot buffer that had been filled and drained to empty
C37_Witness ==
    /\ Ready /\ cb.capacity = 4 /\ cb.count = 0
    /\ cb.readIndex = 2 /\ cb.writeIndex = 2
    /\ call = Call("pop", TRUE, 0) /\ ret = CB_ERROR_NULL_POINTER

(***************************************************************************)
(* Claims checked under SpecUse and SpecMain.                              *)
(***************************************************************************)

\* C17: under the overwrite policy, in every state of a Ready buffer the
\* count slots read in order from readIndex are exactly the pushed values
\* that were neither popped nor discarded by an overwrite, oldest first.  In
\* main(), the two pops of Test 3 return 10 and then 20, and where Test 4
\* pushes 100, 110, ..., 170 the buffer then reads 100, 110, ..., 170 from
\* readIndex with count == 8.
C17_ContentsAreSurvivors ==
    /\ (Ready /\ policy = POLICY_OVERWRITE_OLDEST)
         => (cb.count = Len(live) /\ Contents(cb) = live)
    /\ (prog # "none" /\ Len(hist) >= 8)
         => /\ hist[7].call.op = "pop" /\ hist[7].ret = CB_SUCCESS
            /\ hist[7].data = 10
            /\ hist[8].call.op = "pop" /\ hist[8].ret = CB_SUCCESS
            /\ hist[8].data = 20
    /\ (prog = "mini" /\ policy = POLICY_OVERWRITE_OLDEST /\ line = "test5")
         => /\ cb.count = 8
            /\ Contents(cb) = <<100, 110, 120, 130, 140, 150, 160, 170>>

\* main() of 10_circular_buffer_mini.c has finished Test 4: the read cursor
\* stands at slot 5 and the values 30, 40 and 50 are gone
C17_Witness ==
    /\ prog = "mini" /\ policy = POLICY_OVERWRITE_OLDEST /\ line = "test5"
    /\ Ready /\ cb.capacity = 8 /\ cb.readIndex = 5 /\ cb.writeIndex = 5
    /\ cb.pBuffer = <<130, 140, 150, 160, 170, 100, 110, 120>>
    /\ hist[7].data = 10 /\ hist[8].data = 20

\* C18 as stated: in main() of 10_circular_buffer_mini.c under the overwrite
\* policy, exactly 5 of the 8 pushes of Test 4 are made on a full buffer.
C18_FiveOverwrites ==
    (prog = "mini" /\ policy = POLICY_OVERWRITE_OLDEST /\ line = "test5")
        => Cardinality(Test4Overwrites) = 5

\* C18 as amended: under the overwrite policy exactly 3 of the 8 pushes
\* 100, ..., 170 are made on a full buffer (the first 5 fill the 5 free
\* slots): they are the pushes of 150, 160 and 170, and each discards one
\* unread element, 30, 40 and 50 in turn, keeping count at 8.  With the 10
\* pushes 100, ..., 190 of circular_buffer.c's main() there are 5.
C18_ThreeOverwrites ==
    /\ [][(prog = "mini" /\ policy = POLICY_OVERWRITE_OLDEST /\ line = "test4"
             /\ cb_isFull(cb))
            => /\ ret' = CB_SUCCESS
               /\ <<Head(Contents(cb)), call'.arg>>
                    \in {<<30, 150>>, <<40, 160>>, <<50, 170>>}
               /\ Contents(cb') = Append(Tail(Contents(cb)), call'.arg)
               /\ cb'.count = 8]_vars
    /\ []((policy = POLICY_OVERWRITE_OLDEST /\ line = "test5")
            => /\ Cardinality(Test4Pushes) = (IF prog = "mini" THEN 8 ELSE 10)
               /\ Cardinality(Test4Overwrites) = (IF prog = "mini" THEN 3 ELSE 5))

\* Test 4 of 10_circular_buffer_mini.c has ended with three overwrites logged
C18_Witness ==
    /\ prog = "mini" /\ policy = POLICY_OVERWRITE_OLDEST /\ line = "test5"
    /\ Cardinality(Test4Overwrites) = 3
    /\ \A k \in Test4Overwrites : hist[k].call.arg \in {150, 160, 170}
    /\ cb.count = 8 /\ live[1] = 100

(***************************************************************************)
(* Claims checked under SpecLog.                                           *)
(***************************************************************************)

\* C14: a deinit that directly follows a deinit of a buffer that had been
\* initialized returns CB_SUCCESS, frees nothing and leaves every field as
\* the first deinit left it; no block is ever freed that is not held.
C14_DeinitIdempotent ==
    /\ [][(call.op = "deinit" /\ call'.op = "deinit")
            => (ret' = CB_SUCCESS /\ cb' = cb /\ allocated' = allocated
                /\ cb_deinit(cb).freed = 0)]_vars
    /\ [](allocated >= 0)

\* a buffer of four slots that held data was deinitialized twice in a row
C14_Witness ==
    /\ Len(hist) >= 4
    /\ hist[1].call.arg = 4
    /\ hist[2].call.op = "push" /\ hist[2].ret = CB_SUCCESS
    /\ hist[Len(hist) - 1].call.op = "deinit"
    /\ hist[Len(hist)].call.op = "deinit" /\ hist[Len(hist)].ret = CB_SUCCESS
    /\ ~cb.isInitialized /\ cb.pBuffer = NULL /\ cb.capacity = 0
    /\ allocated = 0

\* C19: when exactly capacity pushes and no other call have followed a
\* successful init, under either full policy, every one of the pushes
\* returned CB_SUCCESS, isFull is true, isEmpty is false, count == capacity
\* and writeIndex has wrapped to 0, where readIndex still stands; before
\* that, with fewer pushes, isFull is false.
C19_FullAfterCapacityPushes ==
    OnlyPushes =>
        /\ CallsMade <= hist[1].call.arg =>
             /\ \A k \in 2 .. Len(hist) : hist[k].ret = CB_SUCCESS /\ ~hist[k].full
             /\ cb.count = CallsMade
             /\ cb.readIndex = 0
        /\ CallsMade < hist[1].call.arg =>
             /\ ~cb_isFull(cb)
             /\ cb.writeIndex = CallsMade
        /\ CallsMade = hist[1].call.arg =>
             /\ cb_isFull(cb) /\ ~cb_isEmpty(cb)
             /\ cb.count = cb.capacity
             /\ cb.capacity = hist[1].call.arg
             /\ cb.writeIndex = cb.readIndex /\ cb.writeIndex = 0

\* four pushes have filled a fresh four-slot buffer under the reject policy
C19_Witness ==
    /\ OnlyPushes /\ CallsMade = 4 /\ hist[1].call.arg = 4
    /\ policy = POLICY_REJECT_NEW
    /\ hist[5].ret = CB_SUCCESS
    /\ cb.count = 4 /\ cb.writeIndex = 0 /\ cb.readIndex = 0
    /\ cb.pBuffer = <<1, 2, 2, 1>>

\* C20: on a freshly initialized buffer of any valid size, a push of v
\* followed by a pop with an output location returns CB_SUCCESS both times,
\* the pop stores v, and the buffer is left empty with writeIndex ==
\* readIndex.
C20_PushPopRoundTrip ==
    (/\ Len(hist) = 3
     /\ hist[2].call.op = "push"
     /\ hist[3].call.op = "pop" /\ ~hist[3].call.pNull)
        => /\ hist[2].ret = CB_SUCCESS
           /\ hist[3].ret = CB_SUCCESS
           /\ hist[3].data = hist[2].call.arg
           /\ data = hist[2].call.arg
           /\ cb_isEmpty(cb) /\ cb.count = 0
           /\ cb.writeIndex = cb.readIndex
           /\ cb.readIndex = BitAnd(1, cb.indexMask)

\* push(2) and pop on a fresh one-slot buffer: both cursors wrapped to 0
C20_Witness ==
    /\ Len(hist) = 3 /\ hist[1].call.arg = 1
    /\ hist[2].call = Call("push", FALSE, 2)
    /\ hist[3].call = Call("pop", FALSE, 0) /\ hist[3].ret = CB_SUCCESS
    /\ data = 2 /\ cb.count = 0 /\ cb.readIndex = 0 /\ cb.writeIndex = 0

(***************************************************************************)
(* Claims checked under SpecWord.                                          *)
(***************************************************************************)

\* C25: for every 32-bit n, isPowerOfTwo(n) is true exactly when n has a
\* single 1 bit, that is n = 2^k for some k in 0..31; it is false for 0 and
\* true for 1 and for 2^31; the versions of circular_buffer.c,
\* 10_circular_buffer_mini.c and 05_bitwise_power_of_two.c return the same.
C25_PowerOfTwoExact ==
    /\ isPowerOfTwo05({}) = FALSE
    /\ isPowerOfTwo05({0}) = TRUE
    /\ isPowerOfTwo05({UINT32_BITS - 1}) = TRUE
    /\ (wres.called /\ wres.op = "isPowerOfTwo")
         => /\ wres.demo = (\E k \in 0 .. (UINT32_BITS - 1) : wres.n = {k})
            /\ wres.main = wres.demo
            /\ wres.mini = wres.demo

\* the three versions answered for 0 after 0xFFFFFFFF had been incremented
C25_Witness ==
    /\ wres.called /\ wres.op = "isPowerOfTwo"
    /\ wres.n = {} /\ ~wres.demo /\ ~wres.main /\ ~wres.mini
    /\ wsteps = 1 /\ word = {}

\* C26: for every size 2^k, k in 0..31, and every 32-bit index,
\* index & (size - 1) equals index % size and lies in 0 .. size - 1, also
\* for indexes at 0xFFFFFFFF and for the 0 that 0xFFFFFFFF + 1 wraps to.
C26_MaskIsModulo ==
    (wres.called /\ wres.op = "wrap")
      => /\ ValueOf(wres.masked) = wres.modulo
         /\ wres.masked \subseteq 0 .. (UINT32_BITS - 2)
         /\ wres.modulo >= 0
         /\ wres.modulo <= ValueOf(Dec32(wres.size))

\* 0xFFFFFFFF wrapped to 15 for the size 16, and the index was then
\* incremented to 0
C26_Witness ==
    /\ wres.called /\ wres.op = "wrap"
    /\ wres.index = 0 .. (UINT32_BITS - 1) /\ wres.size = {4}
    /\ ValueOf(wres.masked) = 15 /\ wres.modulo = 15
    /\ wsteps = 1 /\ word = {}

\* the highest bit set in a value other than 0
TopBit(w) == CHOOSE b \in w : \A c \in w : c <= b

\* C39 as stated: nextPowerOfTwo(n) is the smallest power of two that is
\* >= n for every 32-bit n: 1 for 0, n itself when n is a power of two,
\* otherwise the power of two just above the highest bit of n; the result
\* always satisfies isPowerOfTwo, also for n greater than 2^31.
C39_NextPowerOfTwo ==
    (wres.called /\ wres.op = "nextPowerOfTwo")
      => /\ isPowerOfTwo05(wres.result)
         /\ wres.result = (IF wres.n = {} THEN {0}
                           ELSE IF isPowerOfTwo05(wres.n) THEN wres.n
                           ELSE {TopBit(wres.n) + 1})
         /\ wres.result \subseteq 0 .. (UINT32_BITS - 1)

(***************************************************************************)
(* Claims checked under SpecSize.                                          *)
(***************************************************************************)

\* C12 as stated: for every size that is a power of two, up to 2^31, when
\* malloc returns a block, init returns CB_SUCCESS and leaves isInitialized
\* set, capacity == size, indexMask == size - 1 and a block with room for
\* exactly capacity elements.
C12_PowerOfTwoInitReady ==
    (init32 # NotCalled /\ isPowerOfTwo32(size32) /\ init32.held)
        => /\ init32.ret = CB_SUCCESS
           /\ init32.isInitialized
           /\ init32.capacity = size32
           /\ init32.indexMask = Dec32(size32)
           /\ init32.slots = init32.capacity

\* C36 as stated: whenever init returns CB_SUCCESS, the byte count handed
\* to malloc is capacity * sizeof(SensorData_t) with no bit lost to the
\* width of size_t, and the block has room for exactly capacity elements;
\* where the product does not fit, init does not return CB_SUCCESS.
C36_AllocationExact ==
    (init32 # NotCalled /\ init32.ret = CB_SUCCESS)
        => /\ AllocBytes(size32, sizeBits) = {b + ELEM_SHIFT : b \in size32}
           /\ init32.slots = init32.capacity

(***************************************************************************)
(* Claims checked under SpecConc.                                          *)
(***************************************************************************)

C27_CallsTerminate ==
    /\ [](InCritical => ENABLED <<ConsumerStep>>_vars)
    /\ (InCritical ~> (pc = "idle"))

\* on the ARM build cb_pop_safe has returned CB_ERROR_EMPTY with interrupts
\* enabled again, and the producer has never pushed
C27_Witness ==
    /\ armArch /\ ~irqOff /\ pc = "idle"
    /\ call.op = "pop_safe" /\ ret = CB_ERROR_EMPTY
    /\ cb.count = 0 /\ cb.writeIndex = 0 /\ live = <<>>
    /\ cb.capacity = 4

(***************************************************************************)
(* Claims checked under SpecCounter.                                       *)
(***************************************************************************)

\* C29: whenever the main loop is between updates, the shared counter holds
\* its start value plus every update made, less one for each update of the
\* interrupt handler that fell between a load and the store of an unguarded
\* count++ or count-- of the main loop; when every read-modify-write stands
\* between ENTER_CRITICAL() and EXIT_CRITICAL() no update of the handler
\* falls there, so none is lost.
C29_LostUpdates ==
    pc = "idle"
      => /\ value = SumDeltas(hist) - LostUpdates(hist)
         /\ prog = "safe" => LostUpdates(hist) = 0
         /\ \A k \in 1 .. Len(hist) :
               hist[k].inside => (prog = "race" /\ armArch)

\* starting from 5, an increment of the handler fell inside a bare
\* increment of the main loop, and the two increments have left 6
C29_Witness ==
    /\ prog = "race" /\ armArch /\ pc = "idle"
    /\ hist = <<Update("start", 5, FALSE), Update("isr", 1, TRUE),
                Update("main", 1, FALSE)>>
    /\ value = 6

(***************************************************************************)
(* Claims checked under SpecEither.                                        *)
(***************************************************************************)

\* C28: in every state of a Ready buffer between calls, whether the buffer
\* is used from one thread with the plain calls or shared through
\* cb_push_safe and cb_pop_safe only, writeIndex == (readIndex + count) &
\* indexMask, and so writeIndex == readIndex exactly when the buffer is
\* empty or full.
C28_WriteCursorIdentity ==
    (Ready /\ pc = "idle")
      => /\ cb.writeIndex = BitAnd(cb.readIndex + cb.count, cb.indexMask)
         /\ (cb.writeIndex = cb.readIndex)
              <=> (cb.count = 0 \/ cb.count = cb.capacity)

\* a guarded pop has returned and the producer has filled the four-slot
\* buffer again: both cursors stand at slot 1
C28_Witness ==
    /\ GuardedUse /\ Ready /\ pc = "idle"
    /\ call.op = "pop_safe" /\ ret = CB_SUCCESS
    /\ cb.capacity = 4 /\ cb.count = 4
    /\ cb.writeIndex = 1 /\ cb.readIndex = 1

\* C35: between calls the count of a Ready buffer is the length of the
\* queue that gains one value per successful push and loses one per
\* successful pop and one per push executed on a full buffer under the
\* overwrite policy, counted since the last init or clear; under the reject
\* policy that queue loses a value only to a successful pop and is emptied
\* only by init, clear and deinit, so no pushed value is lost.  Plain calls
\* from one thread and guarded calls with a preempting producer alike.
C35_ElementConservation ==
    [][/\ (Ready' /\ pc' = "idle") => cb'.count = Len(live')
       /\ (policy = POLICY_REJECT_NEW /\ live' # live)
            => \/ \E v \in Data : live' = Append(live, v)
               \/ /\ live # <<>> /\ live' = Tail(live)
                  /\ \/ call'.op = "pop" /\ ret' = CB_SUCCESS
                     \/ pc = "storeCount" /\ ret' = CB_SUCCESS
               \/ live' = <<>> /\ call'.op \in {"init", "clear", "deinit"}]_vars

\* under the reject policy the producer's guarded push was refused on the
\* full four-slot buffer after a guarded pop had returned: four values
\* pushed and not popped, count 4
C35_Witness ==
    /\ GuardedUse /\ Ready /\ pc = "idle"
    /\ policy = POLICY_REJECT_NEW
    /\ call.op = "pop_safe" /\ ret = CB_SUCCESS
    /\ isr.ret = CB_ERROR_FULL
    /\ cb.capacity = 4 /\ cb.count = 4 /\ Len(live) = 4

(***************************************************************************)
(* Claims checked under SpecPoll.                                          *)
(***************************************************************************)

\* C34: with a producer that only pushes and a consumer that is the only
\* caller of pop, once cb_isEmpty has returned false to the consumer the
\* buffer holds at least one unread value until the consumer's next
\* cb_pop_safe, and that call returns CB_SUCCESS, under either full policy
\* and wherever the producer's pushes fall.
C34_NotEmptyThenPopSucceeds ==
    line = "pop"
      => /\ pc \in {"idle", "check"} => (cb.count > 0 /\ live # <<>>)
         /\ pc \notin {"idle", "check"} => call.op = "pop_safe"
         /\ pc = "exit" => ret = CB_SUCCESS

\* cb_isEmpty had returned false and the cb_pop_safe that followed is about
\* to return CB_SUCCESS, after the producer has overwritten values of the
\* four-slot buffer
C34_Witness ==
    /\ line = "pop" /\ pc = "exit" /\ ret = CB_SUCCESS
    /\ policy = POLICY_OVERWRITE_OLDEST /\ armArch
    /\ cb.capacity = 4 /\ cb.count = 3 /\ cb.readIndex = 2
    /\ isr.ret = CB_SUCCESS

(***************************************************************************)
(* Claims checked under SpecPreempt.                                       *)
(***************************************************************************)

\* C32 as stated (its first half): when cb_clear has returned, with the
\* producer free to push between any two of its steps, the buffer satisfies
\* writeIndex == (readIndex + count) & indexMask and 0 <= count <= capacity.
C32_ClearKeepsIdentity ==
    (pc = "idle" /\ call.op = "clear" /\ ret = CB_SUCCESS)
      => /\ cb.writeIndex = BitAnd(cb.readIndex + cb.count, cb.indexMask)
         /\ cb.count >= 0 /\ cb.count <= cb.capacity

\* C33 as stated: under the overwrite policy, with the producer free to
\* push between any two steps of cb_peek, a successful peek returns a value
\* that was the oldest unread value of the buffer at some moment of the
\* call.
C33_PeekReturnsAnOldest ==
    (pc = "idle" /\ call.op = "peek" /\ ret = CB_SUCCESS
       /\ policy = POLICY_OVERWRITE_OLDEST)
      => Seen(hist, data)

(***************************************************************************)
(* Claims checked under SpecRing.                                          *)
(***************************************************************************)

\* the two buffers agree on cursors and count, and their last calls both
\* succeeded or both failed
SameShape ==
    /\ rb.head = cb.readIndex
    /\ rb.tail = cb.writeIndex
    /\ rb.count = cb.count
    /\ call.op \in {"push", "pop"} => ((rbOut.ret = 0) <=> (ret = CB_SUCCESS))

\* C38 as stated: for capacity 8 and the reject policy, after every step of
\* any sequence of push and pop calls made on both buffers from the empty
\* state, the calls returned the same success or failure, the same popped
\* value, and head == readIndex, tail == writeIndex and the counts are
\* equal.
C38_RingEquivalent ==
    /\ SameShape
    /\ (call.op = "pop" /\ ret = CB_SUCCESS) => rbOut.data = data

\* C38 as amended: the two buffers agree on success and failure, on the
\* cursors and on count after every step; the value the RingBuffer pops is
\* the value the circular buffer pops reduced to uint8_t, so the popped
\* values are the same whenever the pushed values lie in 0..255.
C38_RingEquivalentInUint8 ==
    /\ SameShape
    /\ \A k \in 1 .. RING_BUFFER_SIZE :
          rb.buffer[k] = ToUint8(Slot(cb.pBuffer, k - 1))
    /\ (call.op = "pop" /\ ret = CB_SUCCESS)
          => /\ rbOut.data = ToUint8(data)
             /\ data < UINT8_RANGE => rbOut.data = data

\* both buffers refused a push when full with both cursors wrapped to
\* slot 3, after a pop that returned 2 from both
C38_Witness ==
    /\ call.op = "push" /\ ret = CB_ERROR_FULL /\ rbOut.ret = -1
    /\ cb.count = RING_BUFFER_SIZE /\ rb.count = RING_BUFFER_SIZE
    /\ cb.readIndex = 3 /\ cb.writeIndex = 3 /\ rb.head = 3 /\ rb.tail = 3
    /\ data = 2 /\ rbOut.data = 2

====
